---- MODULE Spec2Model ----
(***************************************************************************)
(* Natural-source EM receivers (SimPEG/EM/NSEM/RxNSEM.py): the receiver    *)
(* object with its transient bindings and lazily cached interpolation      *)
(* matrices, and its operations eval and evalDeriv, for the four concrete  *)
(* variants; and the cylindrically symmetric mesh                          *)
(* (SimPEG/mesh/Cyl1DMesh.py): its construction, its counts, geometry and  *)
(* averaging operators, cached on first use, and getMass.                  *)
(*                                                                         *)
(* Numbers.  The code computes in complex floating point.  The model       *)
(* computes exactly, in the complex rationals: a number is <<a, b, d>>,    *)
(* standing for (a + b*i)/d, kept in lowest terms with d > 0, so that      *)
(* equal numbers are equal tuples.  A division by zero gives NonFinite     *)
(* (numpy's inf/nan), which every later operation propagates.              *)
(***************************************************************************)
EXTENDS Integers, Sequences, FiniteSets, TLC

\* ------------------------------------------------------------------ bounds

\* Number of field-solution objects the environment offers.
NumFields == 2

\* Number of model-space test vectors offered to evalDeriv (forward mode).
NumModelVecs == 3

\* Number of edges, and of faces, of a mesh.
NumEdges == 3

\* Largest numbers of radial and of vertical cells of a cylindrical mesh.
MaxNCr == 3
MaxNCz == 2

\* Largest number of operations in a sequence of operations on one mesh.
MaxOps == 3

\* Largest number of data of a receiver of a survey.
MaxRxND == 2

\* --------------------------------------------------------------- constants

\* scipy.constants.mu_0 (4*pi*1e-7) is not a rational number; the model
\* carries a rational stand-in different from 0 and 1, so that a missing or
\* doubled division by mu_0 changes a value.
mu_0 == 2

\* Python's None, for an unbound source or mesh and for an unbuilt matrix.
None == "None"
NoneMat == <<>>

\* -------------------------------------------------------- complex rationals

NonFinite == <<0, 0, 0>>

\* The greatest common divisor of a and b, for b >= 0 and not both zero.
RECURSIVE Gcd(_, _)
Gcd(a, b) == IF b = 0 THEN a ELSE Gcd(b, a % b)

\* (a + b*i)/d in lowest terms, for d >= 0; NonFinite when d = 0.
Norm(a, b, d) ==
  IF d = 0 THEN NonFinite
  ELSE LET g == Gcd(b, Gcd(a, d))
       IN <<a \div g, b \div g, d \div g>>

Cx(a, b) == <<a, b, 1>>
Zero == Cx(0, 0)
One == Cx(1, 0)
ImagUnit == Cx(0, 1)

IsFinite(x) == x[3] # 0

\* The sum over the least common denominator.
CAdd(x, y) ==
  IF x[3] = 0 \/ y[3] = 0 THEN NonFinite
  ELSE LET p == y[3] \div Gcd(x[3], y[3])
           q == (x[3] * p) \div y[3]
       IN Norm(x[1] * p + y[1] * q, x[2] * p + y[2] * q, x[3] * p)

CNeg(x) == <<-x[1], -x[2], x[3]>>

CSub(x, y) == CAdd(x, CNeg(y))

CMul(x, y) ==
  Norm(x[1] * y[1] - x[2] * y[2], x[1] * y[2] + x[2] * y[1], x[3] * y[3])

\* 1/x; 1/0 is not finite.
CInv(x) == Norm(x[1] * x[3], -(x[2] * x[3]), x[1] * x[1] + x[2] * x[2])

CDiv(x, y) == CMul(x, CInv(y))

\* The .real and .imag attributes of a complex value.
RealPart(x) == Norm(x[1], 0, x[3])
ImagPart(x) == Norm(x[2], 0, x[3])

\* ----------------------------------------------------------- linear algebra
\* A vector is a sequence of numbers, a matrix a sequence of rows.

\* A function on 1..n as a tuple: TLC then computes each entry once instead of
\* at every use.
AsSeq(f) == f \o <<>>

RECURSIVE SumTo(_, _)
SumTo(f, n) == IF n = 0 THEN Zero ELSE CAdd(SumTo(f, n - 1), f[n])

Dot(x, y) == SumTo([k \in 1..Len(x) |-> CMul(x[k], y[k])], Len(x))

VAdd(x, y) == AsSeq([k \in 1..Len(x) |-> CAdd(x[k], y[k])])
VSub(x, y) == AsSeq([k \in 1..Len(x) |-> CSub(x[k], y[k])])
VNeg(x) == AsSeq([k \in 1..Len(x) |-> CNeg(x[k])])
\* Elementwise product: x * y on arrays, and sdiag(x) * y.
VMul(x, y) == AsSeq([k \in 1..Len(x) |-> CMul(x[k], y[k])])
VInv(x) == AsSeq([k \in 1..Len(x) |-> CInv(x[k])])
VScale(c, x) == AsSeq([k \in 1..Len(x) |-> CMul(c, x[k])])
VDivS(x, c) == AsSeq([k \in 1..Len(x) |-> CDiv(x[k], c)])
VReal(x) == AsSeq([k \in 1..Len(x) |-> RealPart(x[k])])
VImag(x) == AsSeq([k \in 1..Len(x) |-> ImagPart(x[k])])

\* M * x
MatVec(M, x) == AsSeq([r \in 1..Len(M) |-> Dot(M[r], x)])

\* M.T
Transpose(M) ==
  AsSeq([c \in 1..Len(M[1]) |-> AsSeq([r \in 1..Len(M) |-> M[r][c]])])

\* c * M
MScale(c, M) == AsSeq([r \in 1..Len(M) |-> VScale(c, M[r])])

\* -------------------------------------------------------------- environment
\* The collaborators of the receiver: sources, meshes, field-solution
\* objects.  They are opaque providers; what they return is tabulated here.

Sources == {"s1", "s2"}

\* Receiver location sets (the rows of a locs array).
LocSets == {"A", "B"}

SrcIx(src) == IF src = "s1" THEN 0 ELSE 1
MeshIx(name) == IF name = "m1" THEN 0 ELSE 1
LocIx(loc) == IF loc = "A" THEN 0 ELSE 1
KindIx(kind) ==
  CASE kind = "Ex" -> 0 [] kind = "Ey" -> 1 [] kind = "Fx" -> 2
    [] kind = "Fy" -> 3 [] kind = "Fz" -> 4
NameIx(name) ==
  CASE name = "e_px" -> 0 [] name = "e_py" -> 1 [] name = "b_px" -> 2
    [] name = "b_py" -> 3 [] name = "e_1d" -> 4 [] name = "b_1d" -> 5

\* locs.shape[0]: the number of receiver locations in a location set.
nLocs(loc) == 2

\* The interpolation weights of the mesh called name, from its edges (faces)
\* of one kind to the locations of one set: nLocs x nE real numbers.
InterpolationWeights(name, loc, kind) ==
  AsSeq([i \in 1..nLocs(loc) |-> AsSeq([j \in 1..NumEdges |->
    Cx((MeshIx(name) * (1 + j) + LocIx(loc) * (2 + i)
        + KindIx(kind) * j + (KindIx(kind) \div 2) * (j + 2 * i)
        + i + 2 * j + 2 * i * j) % 3, 0)])])

InterpolationAt(name, loc) ==
  [Ex |-> InterpolationWeights(name, loc, "Ex"),
   Ey |-> InterpolationWeights(name, loc, "Ey"),
   Fx |-> InterpolationWeights(name, loc, "Fx"),
   Fy |-> InterpolationWeights(name, loc, "Fy"),
   Fz |-> InterpolationWeights(name, loc, "Fz")]

\* A mesh object: its number of edges (and of faces) and the interpolation
\* matrices it yields at each location set.  NoneMesh is the unbound mesh.
MeshObject(name) ==
  [name |-> name, nE |-> NumEdges,
   A |-> InterpolationAt(name, "A"), B |-> InterpolationAt(name, "B")]
NoneMesh == [name |-> None, nE |-> 0, A |-> <<>>, B |-> <<>>]
Meshes == {MeshObject("m1"), MeshObject("m2")}

\* mesh.nE
nE(mesh) == mesh.nE

\* The size of a model-space vector: both polarizations stacked.
nU(mesh) == 2 * nE(mesh)

\* mesh.getInterpolationMat(loc, kind)
getInterpolationMat(mesh, loc, kind) == mesh[loc][kind]

\* The solution u of the forward problem (both polarizations stacked, nU
\* entries) behind a field-solution object.
Solution(k) ==
  AsSeq([j \in 1..(2 * NumEdges) |->
    Cx(((2 * k * j + k + 2 * j) % 3) - 1, 1)])

\* The fields are affine in u: f[src, name] = primary + D(src, name) * u, and
\* D(src, name) is the matrix of the derivative operator f._<name>Deriv_u.
FieldDerivMat(src, name) ==
  AsSeq([j \in 1..NumEdges |-> AsSeq([k \in 1..(2 * NumEdges) |->
    Cx(((2 * SrcIx(src) + NameIx(name) * k + 2 * k) % 3) - 1,
       IF (NameIx(name) + j + k + SrcIx(src)) % 4 = 0 THEN 1 ELSE 0)])])

PrimaryField(src, name) ==
  AsSeq([j \in 1..NumEdges |-> Cx(NameIx(name) % 2, 0)])

FieldOf(u, src, name) ==
  VAdd(PrimaryField(src, name), MatVec(FieldDerivMat(src, name), u))

\* The fields of one source, by name.
FieldsOfSource(u, src) ==
  [e_px |-> FieldOf(u, src, "e_px"), e_py |-> FieldOf(u, src, "e_py"),
   b_px |-> FieldOf(u, src, "b_px"), b_py |-> FieldOf(u, src, "b_py"),
   e_1d |-> FieldOf(u, src, "e_1d"), b_1d |-> FieldOf(u, src, "b_1d")]

\* A field-solution object: the solution it was built from and the fields it
\* holds for each source.  None is the object with no solution.
NewFields(u) ==
  [u |-> u, s1 |-> FieldsOfSource(u, "s1"), s2 |-> FieldsOfSource(u, "s2")]

FieldObject(k) == NewFields(Solution(k))
NoneField == [u |-> <<>>, s1 |-> <<>>, s2 |-> <<>>]
Fields == {FieldObject(k) : k \in 1..NumFields}

\* f[src, name]: the complex field of one polarization on the edges/faces.
FieldGet(f, src, name) == f[src][name]

\* f._<name>Deriv_u(src, v, adjoint): the linear map, or its transpose.
FieldDeriv_u(f, src, name, v, adjoint) ==
  LET D == FieldDerivMat(src, name)
  IN MatVec(IF adjoint THEN Transpose(D) ELSE D, v)

\* Model-space vectors offered to evalDeriv(adjoint=False).
ModelVec(k) ==
  AsSeq([j \in 1..(2 * NumEdges) |-> Cx(((k * j + k) % 3) - 1, (k + j) % 2)])
ModelVecs == {ModelVec(k) : k \in 1..NumModelVecs}

\* Data-space vectors offered to evalDeriv(adjoint=True): the unit vectors.
UnitVec(n, i) == AsSeq([j \in 1..n |-> IF j = i THEN One ELSE Zero])
DataVecs == {UnitVec(2, i) : i \in 1..2}

\* --------------------------------------------------------------- receivers

Variants == {"impedance1D", "impedance3D", "tipper3D", "horizontalmagvar3D"}

\* StringChoice of BaseRxNSEM_Point.orientation.
Orientations == {"xx", "xy", "yx", "yy", "zx", "zy"}

\* StringChoice of component, after the synonyms are mapped.
Components == {"real", "imag"}

\* The receivers that can be constructed.  locs is <<A>> for a 2-D array of
\* locations and <<A, B>> for a 3-D one (numerator set, denominator set).
NewReceiver(variant, orientation, component, locs) ==
  [variant |-> variant, orientation |-> orientation, component |-> component,
   locs |-> locs, _src |-> None, _mesh |-> NoneMesh, _f |-> NoneField,
   _Pex |-> NoneMat, _Pey |-> NoneMat, _Pbx |-> NoneMat, _Pby |-> NoneMat, _Pbz |-> NoneMat,
   _Pbx_num |-> NoneMat, _Pby_num |-> NoneMat]

Receivers ==
  {NewReceiver("impedance1D", "yx", c, <<"A">>) : c \in Components}
  \cup {NewReceiver(va, o, c, l) :
          va \in {"impedance3D", "tipper3D"}, o \in Orientations,
          c \in Components, l \in {<<"A">>, <<"A", "B">>}}
  \cup {NewReceiver("horizontalmagvar3D", o, c, l) :
          o \in Orientations, c \in Components,
          l \in {<<"A", "A">>, <<"A", "B">>}}

ndim(locs) == Len(locs) + 1

_loc_numerator(self) ==
  IF ndim(self.locs) = 3 THEN self.locs[1] ELSE self.locs[1]

_loc_denominator(self) ==
  IF ndim(self.locs) = 3 THEN self.locs[2] ELSE self.locs[1]

\* The cached interpolation properties: built from the bound mesh on first
\* access, the cached matrix afterwards.
Pex(self) ==
  IF self._Pex = NoneMat
  THEN getInterpolationMat(self._mesh, _loc_numerator(self), "Ex")
  ELSE self._Pex

Pey(self) ==
  IF self._Pey = NoneMat
  THEN getInterpolationMat(self._mesh, _loc_numerator(self), "Ey")
  ELSE self._Pey

Pbx(self) ==
  IF self._Pbx = NoneMat
  THEN getInterpolationMat(self._mesh, _loc_denominator(self), "Fx")
  ELSE self._Pbx

Pby(self) ==
  IF self._Pby = NoneMat
  THEN getInterpolationMat(self._mesh, _loc_denominator(self), "Fy")
  ELSE self._Pby

Pbz(self) ==
  IF self._Pbz = NoneMat
  THEN getInterpolationMat(self._mesh, _loc_numerator(self), "Fz")
  ELSE self._Pbz

Pbx_num(self) ==
  IF self._Pbx_num = NoneMat
  THEN getInterpolationMat(self._mesh, _loc_numerator(self), "Fx")
  ELSE self._Pbx_num

Pby_num(self) ==
  IF self._Pby_num = NoneMat
  THEN getInterpolationMat(self._mesh, _loc_numerator(self), "Fy")
  ELSE self._Pby_num

\* Point_impedance1D.Pex / Pbx: sampled at locs[:, -1].
Pex_1D(self) ==
  IF self._Pex = NoneMat
  THEN getInterpolationMat(self._mesh, self.locs[1], "Fx")
  ELSE self._Pex

Pbx_1D(self) ==
  IF self._Pbx = NoneMat
  THEN getInterpolationMat(self._mesh, self.locs[1], "Ex")
  ELSE self._Pbx

Mu0 == Cx(mu_0, 0)

\* ---------------------------------------- BaseRxNSEM_Point: field components
\* px: x-polarization, py: y-polarization.  self._f[self._src, name] is read
\* through the receiver's current bindings.

_ex_px(self) == MatVec(Pex(self), FieldGet(self._f, self._src, "e_px"))
_ey_px(self) == MatVec(Pey(self), FieldGet(self._f, self._src, "e_px"))
_ex_py(self) == MatVec(Pex(self), FieldGet(self._f, self._src, "e_py"))
_ey_py(self) == MatVec(Pey(self), FieldGet(self._f, self._src, "e_py"))
_hx_px(self) == VDivS(MatVec(Pbx(self), FieldGet(self._f, self._src, "b_px")), Mu0)
_hy_px(self) == VDivS(MatVec(Pby(self), FieldGet(self._f, self._src, "b_px")), Mu0)
_hz_px(self) == VDivS(MatVec(Pbz(self), FieldGet(self._f, self._src, "b_px")), Mu0)
_hx_py(self) == VDivS(MatVec(Pbx(self), FieldGet(self._f, self._src, "b_py")), Mu0)
_hy_py(self) == VDivS(MatVec(Pby(self), FieldGet(self._f, self._src, "b_py")), Mu0)
_hz_py(self) == VDivS(MatVec(Pbz(self), FieldGet(self._f, self._src, "b_py")), Mu0)

\* The derivatives of the components along vec.
_ex_px_u(self, vec) ==
  MatVec(Pex(self), FieldDeriv_u(self._f, self._src, "e_px", vec, FALSE))
_ey_px_u(self, vec) ==
  MatVec(Pey(self), FieldDeriv_u(self._f, self._src, "e_px", vec, FALSE))
_ex_py_u(self, vec) ==
  MatVec(Pex(self), FieldDeriv_u(self._f, self._src, "e_py", vec, FALSE))
_ey_py_u(self, vec) ==
  MatVec(Pey(self), FieldDeriv_u(self._f, self._src, "e_py", vec, FALSE))
_hx_px_u(self, vec) ==
  VDivS(MatVec(Pbx(self), FieldDeriv_u(self._f, self._src, "b_px", vec, FALSE)), Mu0)
_hy_px_u(self, vec) ==
  VDivS(MatVec(Pby(self), FieldDeriv_u(self._f, self._src, "b_px", vec, FALSE)), Mu0)
_hz_px_u(self, vec) ==
  VDivS(MatVec(Pbz(self), FieldDeriv_u(self._f, self._src, "b_px", vec, FALSE)), Mu0)
_hx_py_u(self, vec) ==
  VDivS(MatVec(Pbx(self), FieldDeriv_u(self._f, self._src, "b_py", vec, FALSE)), Mu0)
_hy_py_u(self, vec) ==
  VDivS(MatVec(Pby(self), FieldDeriv_u(self._f, self._src, "b_py", vec, FALSE)), Mu0)
_hz_py_u(self, vec) ==
  VDivS(MatVec(Pbz(self), FieldDeriv_u(self._f, self._src, "b_py", vec, FALSE)), Mu0)

\* A wrong determinant, to tell apart from _Hd: the sum of the two products.
_Hd_sum(self) ==
  VInv(VAdd(VMul(_hx_px(self), _hy_py(self)), VMul(_hx_py(self), _hy_px(self))))

\* A wrong determinant derivative, to tell apart from _Hd_uV: the last term
\* of the product rule is left out.
_Hd_uV_three_terms(self, v) ==
  VSub(VAdd(VMul(_hy_py(self), _hx_px_u(self, v)),
            VMul(_hx_px(self), _hy_py_u(self, v))),
       VMul(_hx_py(self), _hy_px_u(self, v)))

\* A wrong inverse determinant, to tell apart from _Hd: a zero determinant is
\* checked for and its inverse replaced by zero.
_Hd_zero_checked(self) ==
  LET D == VSub(VMul(_hx_px(self), _hy_py(self)), VMul(_hx_py(self), _hy_px(self)))
  IN AsSeq([k \in 1..Len(D) |-> IF D[k] = Zero THEN Zero ELSE CInv(D[k])])

\* sdiag(1/(hx_px*hy_py - hx_py*hy_px)), a diagonal matrix kept as its
\* diagonal.
_Hd(self) ==
  VInv(VSub(VMul(_hx_px(self), _hy_py(self)), VMul(_hx_py(self), _hy_px(self))))

_Hd_uV(self, v) ==
  VSub(VSub(VAdd(VMul(_hy_py(self), _hx_px_u(self, v)),
                 VMul(_hx_px(self), _hy_py_u(self, v))),
            VMul(_hx_py(self), _hy_px_u(self, v))),
       VMul(_hy_px(self), _hx_py_u(self, v)))

\* Adjoint: row vector times transposed projection, flattened by mkvc.
RowMat(row, M) == MatVec(Transpose(M), row)

_aex_px(self) ==
  RowMat(FieldGet(self._f, self._src, "e_px"), Transpose(Pex(self)))
_aey_px(self) ==
  RowMat(FieldGet(self._f, self._src, "e_px"), Transpose(Pey(self)))
_aex_py(self) ==
  RowMat(FieldGet(self._f, self._src, "e_py"), Transpose(Pex(self)))
_aey_py(self) ==
  RowMat(FieldGet(self._f, self._src, "e_py"), Transpose(Pey(self)))
_ahx_px(self) ==
  RowMat(VDivS(FieldGet(self._f, self._src, "b_px"), Mu0), Transpose(Pbx(self)))
_ahy_px(self) ==
  RowMat(VDivS(FieldGet(self._f, self._src, "b_px"), Mu0), Transpose(Pby(self)))
_ahz_px(self) ==
  RowMat(VDivS(FieldGet(self._f, self._src, "b_px"), Mu0), Transpose(Pbz(self)))
_ahx_py(self) ==
  RowMat(VDivS(FieldGet(self._f, self._src, "b_py"), Mu0), Transpose(Pbx(self)))
_ahy_py(self) ==
  RowMat(VDivS(FieldGet(self._f, self._src, "b_py"), Mu0), Transpose(Pby(self)))
_ahz_py(self) ==
  RowMat(VDivS(FieldGet(self._f, self._src, "b_py"), Mu0), Transpose(Pbz(self)))

\* vec is (nD,) and the result (nU,).
_aex_px_u(self, vec) ==
  FieldDeriv_u(self._f, self._src, "e_px",
               MatVec(Transpose(Pex(self)), vec), TRUE)
_aey_px_u(self, vec) ==
  FieldDeriv_u(self._f, self._src, "e_px",
               MatVec(Transpose(Pey(self)), vec), TRUE)
_aex_py_u(self, vec) ==
  FieldDeriv_u(self._f, self._src, "e_py",
               MatVec(Transpose(Pex(self)), vec), TRUE)
_aey_py_u(self, vec) ==
  FieldDeriv_u(self._f, self._src, "e_py",
               MatVec(Transpose(Pey(self)), vec), TRUE)
_ahx_px_u(self, vec) ==
  VDivS(FieldDeriv_u(self._f, self._src, "b_px",
                     MatVec(Transpose(Pbx(self)), vec), TRUE), Mu0)
_ahy_px_u(self, vec) ==
  VDivS(FieldDeriv_u(self._f, self._src, "b_px",
                     MatVec(Transpose(Pby(self)), vec), TRUE), Mu0)
_ahz_px_u(self, vec) ==
  VDivS(FieldDeriv_u(self._f, self._src, "b_px",
                     MatVec(Transpose(Pbz(self)), vec), TRUE), Mu0)
_ahx_py_u(self, vec) ==
  VDivS(FieldDeriv_u(self._f, self._src, "b_py",
                     MatVec(Transpose(Pbx(self)), vec), TRUE), Mu0)
_ahy_py_u(self, vec) ==
  VDivS(FieldDeriv_u(self._f, self._src, "b_py",
                     MatVec(Transpose(Pby(self)), vec), TRUE), Mu0)
_ahz_py_u(self, vec) ==
  VDivS(FieldDeriv_u(self._f, self._src, "b_py",
                     MatVec(Transpose(Pbz(self)), vec), TRUE), Mu0)

_aHd(self) ==
  VInv(VSub(VMul(_ahx_px(self), _ahy_py(self)), VMul(_ahx_py(self), _ahy_px(self))))

\* As written in the source: the first two terms are the same term.
_aHd_uV(self, x) ==
  VSub(VSub(VAdd(_ahx_px_u(self, VMul(_ahy_py(self), x)),
                 _ahx_px_u(self, VMul(_ahy_py(self), x))),
            _ahy_px_u(self, VMul(_ahx_py(self), x))),
       _ahx_py_u(self, VMul(_ahy_px(self), x)))

\* ------------------------------------------------------- results of a call

Ok(value) == [raised |-> None, value |-> value]
Raise(error) == [raised |-> error, value |-> <<>>]

\* A wrong extraction, to tell apart from getattr: the two parts swapped.
getattr_other(x, component) ==
  IF component = "real" THEN VImag(x) ELSE VReal(x)

\* getattr(x, component) on a complex array: x.real or x.imag.
getattr(x, component) == IF component = "real" THEN VReal(x) ELSE VImag(x)

\* w.reshape((2, n)).T: the two polarizations' halves side by side.
ReshapeT(w, n) == AsSeq([j \in 1..n |-> <<w[j], w[n + j]>>])

\* A wrong adjoint component, to tell apart from AdjointComponent: -1j.
AdjointComponent_minus(M, component) ==
  IF component = "imag" THEN MScale(CNeg(ImagUnit), M) ELSE M

\* The component of an adjoint result.
AdjointComponent(M, component) ==
  IF component = "imag" THEN MScale(ImagUnit, M) ELSE M

\* ---------------------------------------------------------- Point_impedance1D

_ex(self) == MatVec(Pex_1D(self), FieldGet(self._f, self._src, "e_1d"))
_hx(self) == VDivS(MatVec(Pbx_1D(self), FieldGet(self._f, self._src, "b_1d")), Mu0)
_ex_u(self, v) ==
  MatVec(Pex_1D(self), FieldDeriv_u(self._f, self._src, "e_1d", v, FALSE))
_hx_u(self, v) ==
  VDivS(MatVec(Pbx_1D(self), FieldDeriv_u(self._f, self._src, "b_1d", v, FALSE)), Mu0)
_aex_u(self, v) ==
  FieldDeriv_u(self._f, self._src, "e_1d", MatVec(Transpose(Pex_1D(self)), v), TRUE)
_ahx_u(self, v) ==
  VDivS(FieldDeriv_u(self._f, self._src, "b_1d",
                     MatVec(Transpose(Pbx_1D(self)), v), TRUE), Mu0)

_Hd_1D(self) == VInv(_hx(self))

Point_impedance1D_eval(self, return_complex) ==
  LET rx_eval_complex == VMul(VNeg(_Hd_1D(self)), _ex(self))
  IN Ok(IF return_complex THEN rx_eval_complex
        ELSE getattr(rx_eval_complex, self.component))

Point_impedance1D_evalDeriv(self, v, adjoint) ==
  LET Z1d == Point_impedance1D_eval(self, TRUE).value
      Hd == _Hd_1D(self)
  IN IF adjoint
     THEN LET rx_deriv == VSub(VNeg(_aex_u(self, VMul(Hd, v))),
                               _ahx_u(self, VMul(Z1d, VMul(Hd, v))))
          IN Ok(IF self.component = "imag" THEN VScale(ImagUnit, rx_deriv)
                ELSE rx_deriv)
     ELSE LET Z_N_uV == VNeg(_ex_u(self, v))
              Z_D_uV == _hx_u(self, v)
              rx_deriv == VMul(Hd, VSub(Z_N_uV, VMul(Z1d, Z_D_uV)))
          IN Ok(getattr(rx_deriv, self.component))

\* ---------------------------------------------------------- Point_impedance3D

\* The numerator Zij of eval; the orientation is one of xx, xy, yx, yy.
Zij_eval(self) ==
  CASE self.orientation = "xx" ->
         VSub(VMul(_ex_px(self), _hy_py(self)), VMul(_ex_py(self), _hy_px(self)))
    [] self.orientation = "xy" ->
         VAdd(VMul(VNeg(_ex_px(self)), _hx_py(self)), VMul(_ex_py(self), _hx_px(self)))
    [] self.orientation = "yx" ->
         VSub(VMul(_ey_px(self), _hy_py(self)), VMul(_ey_py(self), _hy_px(self)))
    [] self.orientation = "yy" ->
         VAdd(VMul(VNeg(_ey_px(self)), _hx_py(self)), VMul(_ey_py(self), _hx_px(self)))

\* No branch of eval binds Zij for another orientation: self._Hd is
\* evaluated, then the read of Zij raises.
Point_impedance3D_eval(self, return_complex) ==
  IF self.orientation \notin {"xx", "xy", "yx", "yy"}
  THEN Raise("UnboundLocalError")
  ELSE LET rx_eval_complex == VMul(_Hd(self), Zij_eval(self))
       IN Ok(IF return_complex THEN rx_eval_complex
             ELSE getattr(rx_eval_complex, self.component))

\* Adjoint mode: sdiag(Zij) and the transposed numerator derivative.
Zij_adjoint(self) ==
  CASE self.orientation = "xx" ->
         VMul(_aHd(self), VSub(VMul(_ahy_py(self), _aex_px(self)),
                               VMul(_ahy_px(self), _aex_py(self))))
    [] self.orientation = "xy" ->
         VMul(_aHd(self), VAdd(VMul(VNeg(_ahx_py(self)), _aex_px(self)),
                               VMul(_ahx_px(self), _aex_py(self))))
    [] self.orientation = "yx" ->
         VMul(_aHd(self), VSub(VMul(_ahy_py(self), _aey_px(self)),
                               VMul(_ahy_px(self), _aey_py(self))))
    [] self.orientation = "yy" ->
         VMul(_aHd(self), VAdd(VMul(VNeg(_ahx_py(self)), _aey_px(self)),
                               VMul(_ahx_px(self), _aey_py(self))))

ZijN_uV_adjoint(self, x) ==
  CASE self.orientation = "xx" ->
         VSub(VSub(VAdd(_aex_px_u(self, VMul(_ahy_py(self), x)),
                        _ahy_py_u(self, VMul(_aex_px(self), x))),
                   _ahy_px_u(self, VMul(_aex_py(self), x))),
              _aex_py_u(self, VMul(_ahy_px(self), x)))
    [] self.orientation = "xy" ->
         VAdd(VAdd(VSub(VNeg(_aex_px_u(self, VMul(_ahx_py(self), x))),
                        _ahx_py_u(self, VMul(_aex_px(self), x))),
                   _ahx_px_u(self, VMul(_aex_py(self), x))),
              _aex_py_u(self, VMul(_ahx_px(self), x)))
    [] self.orientation = "yx" ->
         VSub(VSub(VAdd(_aey_px_u(self, VMul(_ahy_py(self), x)),
                        _ahy_py_u(self, VMul(_aey_px(self), x))),
                   _ahy_px_u(self, VMul(_aey_py(self), x))),
              _aey_py_u(self, VMul(_ahy_px(self), x)))
    [] self.orientation = "yy" ->
         VAdd(VAdd(VSub(VNeg(_aey_px_u(self, VMul(_ahx_py(self), x))),
                        _ahx_py_u(self, VMul(_aey_px(self), x))),
                   _ahx_px_u(self, VMul(_aey_py(self), x))),
              _aey_py_u(self, VMul(_ahx_px(self), x)))

\* Forward mode: the numerator derivative along v.
ZijN_uV_forward(self, v) ==
  CASE self.orientation = "xx" ->
         VSub(VSub(VAdd(VMul(_hy_py(self), _ex_px_u(self, v)),
                        VMul(_ex_px(self), _hy_py_u(self, v))),
                   VMul(_ex_py(self), _hy_px_u(self, v))),
              VMul(_hy_px(self), _ex_py_u(self, v)))
    [] self.orientation = "xy" ->
         VAdd(VAdd(VSub(VMul(VNeg(_hx_py(self)), _ex_px_u(self, v)),
                        VMul(_ex_px(self), _hx_py_u(self, v))),
                   VMul(_ex_py(self), _hx_px_u(self, v))),
              VMul(_hx_px(self), _ex_py_u(self, v)))
    [] self.orientation = "yx" ->
         VSub(VSub(VAdd(VMul(_hy_py(self), _ey_px_u(self, v)),
                        VMul(_ey_px(self), _hy_py_u(self, v))),
                   VMul(_ey_py(self), _hy_px_u(self, v))),
              VMul(_hy_px(self), _ey_py_u(self, v)))
    [] self.orientation = "yy" ->
         VAdd(VAdd(VSub(VMul(VNeg(_hx_py(self)), _ey_px_u(self, v)),
                        VMul(_ey_px(self), _hx_py_u(self, v))),
                   VMul(_ey_py(self), _hx_px_u(self, v))),
              VMul(_hx_px(self), _ey_py_u(self, v)))

\* In adjoint mode the unbound name is the function ZijN_uV, looked up
\* before any argument is evaluated; in forward mode it is raised by the
\* nested eval.
Point_impedance3D_evalDeriv(self, v, adjoint) ==
  IF self.orientation \notin {"xx", "xy", "yx", "yy"}
  THEN Raise("UnboundLocalError")
  ELSE IF adjoint
  THEN LET aHd == _aHd(self)
           Zij == Zij_adjoint(self)
           rx_deriv_real ==
             VSub(ZijN_uV_adjoint(self, VMul(aHd, v)),
                  _aHd_uV(self, VMul(Zij, VMul(aHd, v))))
       IN Ok(AdjointComponent(ReshapeT(rx_deriv_real, nE(self._mesh)),
                              self.component))
  ELSE LET ZijN_uV == ZijN_uV_forward(self, v)
           Zij == Point_impedance3D_eval(self, TRUE).value
           rx_deriv_real ==
             VMul(_Hd(self), VSub(ZijN_uV, VMul(Zij, _Hd_uV(self, v))))
       IN Ok(getattr(rx_deriv_real, self.component))

\* ------------------------------------------------------------- Point_tipper3D

\* The numerator Tij of eval; the orientation is zx or zy.
Tij_eval(self) ==
  CASE self.orientation = "zx" ->
         VAdd(VMul(VNeg(_hy_px(self)), _hz_py(self)), VMul(_hy_py(self), _hz_px(self)))
    [] self.orientation = "zy" ->
         VSub(VMul(_hx_px(self), _hz_py(self)), VMul(_hx_py(self), _hz_px(self)))

Point_tipper3D_eval(self, return_complex) ==
  IF self.orientation \notin {"zx", "zy"}
  THEN Raise("UnboundLocalError")
  ELSE LET rx_eval_complex == VMul(_Hd(self), Tij_eval(self))
       IN Ok(IF return_complex THEN rx_eval_complex
             ELSE getattr(rx_eval_complex, self.component))

Tij_adjoint(self) ==
  CASE self.orientation = "zx" ->
         VMul(_aHd(self), VAdd(VMul(VNeg(_ahz_py(self)), _ahy_px(self)),
                               VMul(_ahz_px(self), _ahy_py(self))))
    [] self.orientation = "zy" ->
         VMul(_aHd(self), VSub(VMul(_ahz_py(self), _ahx_px(self)),
                               VMul(_ahz_px(self), _ahx_py(self))))

TijN_uV_adjoint(self, x) ==
  CASE self.orientation = "zx" ->
         VAdd(VAdd(VSub(VNeg(_ahz_py_u(self, VMul(_ahy_px(self), x))),
                        _ahy_px_u(self, VMul(_ahz_py(self), x))),
                   _ahy_py_u(self, VMul(_ahz_px(self), x))),
              _ahz_px_u(self, VMul(_ahy_py(self), x)))
    [] self.orientation = "zy" ->
         VSub(VSub(VAdd(_ahx_px_u(self, VMul(_ahz_py(self), x)),
                        _ahz_py_u(self, VMul(_ahx_px(self), x))),
                   _ahx_py_u(self, VMul(_ahz_px(self), x))),
              _ahz_px_u(self, VMul(_ahx_py(self), x)))

TijN_uV_forward(self, v) ==
  CASE self.orientation = "zx" ->
         VAdd(VAdd(VSub(VMul(VNeg(_hy_px(self)), _hz_py_u(self, v)),
                        VMul(_hz_py(self), _hy_px_u(self, v))),
                   VMul(_hy_py(self), _hz_px_u(self, v))),
              VMul(_hz_px(self), _hy_py_u(self, v)))
    [] self.orientation = "zy" ->
         VSub(VSub(VAdd(VMul(_hz_py(self), _hx_px_u(self, v)),
                        VMul(_hx_px(self), _hz_py_u(self, v))),
                   VMul(_hx_py(self), _hz_px_u(self, v))),
              VMul(_hz_px(self), _hx_py_u(self, v)))

Point_tipper3D_evalDeriv(self, v, adjoint) ==
  IF self.orientation \notin {"zx", "zy"}
  THEN Raise("UnboundLocalError")
  ELSE IF adjoint
  THEN LET aHd == _aHd(self)
           Tij == Tij_adjoint(self)
           rx_deriv_real ==
             VSub(TijN_uV_adjoint(self, VMul(aHd, v)),
                  _aHd_uV(self, VMul(Tij, VMul(aHd, v))))
       IN Ok(AdjointComponent(ReshapeT(rx_deriv_real, nE(self._mesh)),
                              self.component))
  ELSE LET TijN_uV == TijN_uV_forward(self, v)
           Tij == Point_tipper3D_eval(self, TRUE).value
           rx_deriv_complex ==
             VMul(_Hd(self), VSub(TijN_uV, VMul(Tij, _Hd_uV(self, v))))
       IN Ok(getattr(rx_deriv_complex, self.component))

\* --------------------------------------------------- Point_horizontalmagvar3D
\* The numerator-side magnetic components, and the overrides of the base.

_hx_num_px(self) ==
  VDivS(MatVec(Pbx_num(self), FieldGet(self._f, self._src, "b_px")), Mu0)
_hy_num_px(self) ==
  VDivS(MatVec(Pby_num(self), FieldGet(self._f, self._src, "b_px")), Mu0)
_hx_num_py(self) ==
  VDivS(MatVec(Pbx_num(self), FieldGet(self._f, self._src, "b_py")), Mu0)
_hy_num_py(self) ==
  VDivS(MatVec(Pby_num(self), FieldGet(self._f, self._src, "b_py")), Mu0)

_hx_num_px_u(self, vec) ==
  VDivS(MatVec(Pbx_num(self), FieldDeriv_u(self._f, self._src, "b_px", vec, FALSE)), Mu0)
_hy_num_px_u(self, vec) ==
  VDivS(MatVec(Pby_num(self), FieldDeriv_u(self._f, self._src, "b_px", vec, FALSE)), Mu0)
_hx_num_py_u(self, vec) ==
  VDivS(MatVec(Pbx_num(self), FieldDeriv_u(self._f, self._src, "b_py", vec, FALSE)), Mu0)
_hy_num_py_u(self, vec) ==
  VDivS(MatVec(Pby_num(self), FieldDeriv_u(self._f, self._src, "b_py", vec, FALSE)), Mu0)

_Hd_hmv(self) ==
  VInv(VSub(VMul(_hx_px(self), _hy_py(self)), VMul(_hx_py(self), _hy_px(self))))

_Hd_uV_hmv(self, v) ==
  VSub(VSub(VAdd(VMul(_hy_py(self), _hx_px_u(self, v)),
                 VMul(_hx_px(self), _hy_py_u(self, v))),
            VMul(_hx_py(self), _hy_px_u(self, v))),
       VMul(_hy_px(self), _hx_py_u(self, v)))

_ahx_num_px(self) ==
  RowMat(VDivS(FieldGet(self._f, self._src, "b_px"), Mu0), Transpose(Pbx_num(self)))
_ahy_num_px(self) ==
  RowMat(VDivS(FieldGet(self._f, self._src, "b_px"), Mu0), Transpose(Pby_num(self)))
_ahx_num_py(self) ==
  RowMat(VDivS(FieldGet(self._f, self._src, "b_py"), Mu0), Transpose(Pbx_num(self)))
_ahy_num_py(self) ==
  RowMat(VDivS(FieldGet(self._f, self._src, "b_py"), Mu0), Transpose(Pby_num(self)))

_ahx_num_px_u(self, vec) ==
  VDivS(FieldDeriv_u(self._f, self._src, "b_px",
                     MatVec(Transpose(Pbx_num(self)), vec), TRUE), Mu0)
_ahy_num_px_u(self, vec) ==
  VDivS(FieldDeriv_u(self._f, self._src, "b_px",
                     MatVec(Transpose(Pby_num(self)), vec), TRUE), Mu0)
_ahx_num_py_u(self, vec) ==
  VDivS(FieldDeriv_u(self._f, self._src, "b_py",
                     MatVec(Transpose(Pbx_num(self)), vec), TRUE), Mu0)
_ahy_num_py_u(self, vec) ==
  VDivS(FieldDeriv_u(self._f, self._src, "b_py",
                     MatVec(Transpose(Pby_num(self)), vec), TRUE), Mu0)

_aHd_hmv(self) ==
  VInv(VSub(VMul(_ahx_px(self), _ahy_py(self)), VMul(_ahx_py(self), _ahy_px(self))))

\* As written in the source: the first two terms are the same term.
_aHd_uV_hmv(self, x) ==
  VSub(VSub(VAdd(_ahx_px_u(self, VMul(_ahy_py(self), x)),
                 _ahx_px_u(self, VMul(_ahy_py(self), x))),
            _ahy_px_u(self, VMul(_ahx_py(self), x))),
       _ahx_py_u(self, VMul(_ahy_px(self), x)))

\* The numerator Mij of eval; the orientation is one of xx, xy, yx, yy.
Mij_eval(self) ==
  CASE self.orientation = "xx" ->
         VSub(VMul(_hx_num_px(self), _hy_py(self)), VMul(_hx_num_py(self), _hy_px(self)))
    [] self.orientation = "xy" ->
         VAdd(VMul(VNeg(_hx_num_px(self)), _hx_py(self)), VMul(_hx_num_py(self), _hx_px(self)))
    [] self.orientation = "yx" ->
         VSub(VMul(_hy_num_px(self), _hy_py(self)), VMul(_hy_num_py(self), _hy_px(self)))
    [] self.orientation = "yy" ->
         VAdd(VMul(VNeg(_hy_num_px(self)), _hx_py(self)), VMul(_hy_num_py(self), _hx_px(self)))

\* A wrong correction, to tell apart from schmucker_corr_eval: none.
schmucker_corr_none(self) == Zero

\* schmucker_corr, as eval sets it.
schmucker_corr_eval(self) ==
  CASE self.orientation = "xx" -> One
    [] self.orientation = "xy" -> Zero
    [] self.orientation = "yx" -> Zero
    [] self.orientation = "yy" -> One

\* A wrong correction, to tell apart from schmucker_corr_evalDeriv: 1 on the
\* off-diagonal orientations.
schmucker_corr_off_diagonal(self) ==
  IF self.orientation \in {"xy", "yx"} THEN One ELSE Zero

\* schmucker_corr, as forward-mode evalDeriv sets it.
schmucker_corr_evalDeriv(self) ==
  CASE self.orientation = "xx" -> One
    [] self.orientation = "xy" -> Zero
    [] self.orientation = "yx" -> Zero
    [] self.orientation = "yy" -> One

\* x - c and x + c for an array x and a scalar c.
VSubS(x, c) == AsSeq([k \in 1..Len(x) |-> CSub(x[k], c)])
VAddS(x, c) == AsSeq([k \in 1..Len(x) |-> CAdd(x[k], c)])

Point_horizontalmagvar3D_eval(self, return_complex) ==
  IF self.orientation \notin {"xx", "xy", "yx", "yy"}
  THEN Raise("UnboundLocalError")
  ELSE LET rx_eval_complex ==
             VSubS(VMul(_Hd_hmv(self), Mij_eval(self)), schmucker_corr_eval(self))
       IN Ok(IF return_complex THEN rx_eval_complex
             ELSE getattr(rx_eval_complex, self.component))

Mij_adjoint(self) ==
  CASE self.orientation = "xx" ->
         VMul(_aHd_hmv(self), VSub(VMul(_ahy_py(self), _ahx_num_px(self)),
                                   VMul(_ahy_px(self), _ahx_num_py(self))))
    [] self.orientation = "xy" ->
         VMul(_aHd_hmv(self), VAdd(VMul(VNeg(_ahx_py(self)), _ahx_num_px(self)),
                                   VMul(_ahx_px(self), _ahx_num_py(self))))
    [] self.orientation = "yx" ->
         VMul(_aHd_hmv(self), VSub(VMul(_ahy_py(self), _ahy_num_px(self)),
                                   VMul(_ahy_px(self), _ahy_num_py(self))))
    [] self.orientation = "yy" ->
         VMul(_aHd_hmv(self), VAdd(VMul(VNeg(_ahx_py(self)), _ahy_num_px(self)),
                                   VMul(_ahx_px(self), _ahy_num_py(self))))

MijN_uV_adjoint(self, x) ==
  CASE self.orientation = "xx" ->
         VSub(VSub(VAdd(_ahx_num_px_u(self, VMul(_ahy_py(self), x)),
                        _ahy_py_u(self, VMul(_ahx_num_px(self), x))),
                   _ahy_px_u(self, VMul(_ahx_num_py(self), x))),
              _ahx_num_py_u(self, VMul(_ahy_px(self), x)))
    [] self.orientation = "xy" ->
         VAdd(VAdd(VSub(VNeg(_ahx_num_px_u(self, VMul(_ahx_py(self), x))),
                        _ahx_py_u(self, VMul(_ahx_num_px(self), x))),
                   _ahx_px_u(self, VMul(_ahx_num_py(self), x))),
              _ahx_num_py_u(self, VMul(_ahx_px(self), x)))
    [] self.orientation = "yx" ->
         VSub(VSub(VAdd(_ahy_num_px_u(self, VMul(_ahy_py(self), x)),
                        _ahy_py_u(self, VMul(_ahy_num_px(self), x))),
                   _ahy_px_u(self, VMul(_ahy_num_py(self), x))),
              _ahy_num_py_u(self, VMul(_ahy_px(self), x)))
    [] self.orientation = "yy" ->
         VAdd(VAdd(VSub(VNeg(_ahy_num_px_u(self, VMul(_ahx_py(self), x))),
                        _ahx_py_u(self, VMul(_ahy_num_px(self), x))),
                   _ahx_px_u(self, VMul(_ahy_num_py(self), x))),
              _ahy_num_py_u(self, VMul(_ahx_px(self), x)))

MijN_uV_forward(self, v) ==
  CASE self.orientation = "xx" ->
         VSub(VSub(VAdd(VMul(_hy_py(self), _hx_num_px_u(self, v)),
                        VMul(_hx_num_px(self), _hy_py_u(self, v))),
                   VMul(_hx_num_py(self), _hy_px_u(self, v))),
              VMul(_hy_px(self), _hx_num_py_u(self, v)))
    [] self.orientation = "xy" ->
         VAdd(VAdd(VSub(VMul(VNeg(_hx_py(self)), _hx_num_px_u(self, v)),
                        VMul(_hx_num_px(self), _hx_py_u(self, v))),
                   VMul(_hx_num_py(self), _hx_px_u(self, v))),
              VMul(_hx_px(self), _hx_num_py_u(self, v)))
    [] self.orientation = "yx" ->
         VSub(VSub(VAdd(VMul(_hy_py(self), _hy_num_px_u(self, v)),
                        VMul(_hy_num_px(self), _hy_py_u(self, v))),
                   VMul(_hy_num_py(self), _hy_px_u(self, v))),
              VMul(_hy_px(self), _hy_num_py_u(self, v)))
    [] self.orientation = "yy" ->
         VAdd(VAdd(VSub(VMul(VNeg(_hx_py(self)), _hy_num_px_u(self, v)),
                        VMul(_hy_num_px(self), _hx_py_u(self, v))),
                   VMul(_hy_num_py(self), _hx_px_u(self, v))),
              VMul(_hx_px(self), _hy_num_py_u(self, v)))

Point_horizontalmagvar3D_evalDeriv(self, v, adjoint) ==
  IF self.orientation \notin {"xx", "xy", "yx", "yy"}
  THEN Raise("UnboundLocalError")
  ELSE IF adjoint
  THEN LET aHd == _aHd_hmv(self)
           Mij == Mij_adjoint(self)
           rx_deriv_real ==
             VSub(MijN_uV_adjoint(self, VMul(aHd, v)),
                  _aHd_uV_hmv(self, VMul(Mij, VMul(aHd, v))))
       IN Ok(AdjointComponent(ReshapeT(rx_deriv_real, nE(self._mesh)),
                              self.component))
  ELSE LET MijN_uV == MijN_uV_forward(self, v)
           Mij == VAddS(Point_horizontalmagvar3D_eval(self, TRUE).value,
                        schmucker_corr_evalDeriv(self))
           rx_deriv_real ==
             VMul(_Hd_hmv(self), VSub(MijN_uV, VMul(Mij, _Hd_uV_hmv(self, v))))
       IN Ok(getattr(rx_deriv_real, self.component))

\* ------------------------------------------------------------- numpy, scipy
\* Real numbers are the numbers above with a zero imaginary part.  A quantity
\* that carries the factor scipy.constants.pi is held as the rational that
\* multiplies pi: pi itself is TimesPi(One).

Half == <<1, 0, 2>>
Two == Cx(2, 0)
TimesPi(x) == x

\* x > 0 for a finite real x.
IsPositive(x) == x[3] > 0 /\ x[2] = 0 /\ x[1] > 0

\* np.ones(n), np.r_[x, y], x.cumsum(), x**2
ones(n) == AsSeq([i \in 1..n |-> One])
r_(x, y) == x \o y
cumsum(x) == AsSeq([i \in 1..Len(x) |-> SumTo(x, i)])
Squared(x) == VMul(x, x)

\* x[:-1] and x[1:]
AllButLast(x) == SubSeq(x, 1, Len(x) - 1)

\* x.repeat(n): every entry n times in a row.
repeat(x, n) == AsSeq([k \in 1..(Len(x) * n) |-> x[((k - 1) \div n) + 1]])

\* np.kron of two vectors: entry i*len(y) + k is x[i]*y[k] (from 0).
kron(x, y) ==
  AsSeq([n \in 1..(Len(x) * Len(y)) |->
    CMul(x[((n - 1) \div Len(y)) + 1], y[((n - 1) % Len(y)) + 1])])

\* The number of columns of a matrix given as its rows.
NumCols(A) == IF Len(A) = 0 THEN 0 ELSE Len(A[1])

\* sp.kron of two matrices: block (i, j) is A[i, j]*B.
spkron(A, B) ==
  AsSeq([r \in 1..(Len(A) * Len(B)) |->
    AsSeq([c \in 1..(NumCols(A) * NumCols(B)) |->
      CMul(A[((r - 1) \div Len(B)) + 1][((c - 1) \div NumCols(B)) + 1],
           B[((r - 1) % Len(B)) + 1][((c - 1) % NumCols(B)) + 1])])])

\* sp.spdiags(data, diags, m, n): the m x n matrix whose diagonal diags[d]
\* holds the row data[d]; the entry of column j is data[d][j].
spdiags(data, diags, m, n) ==
  AsSeq([i \in 1..m |-> AsSeq([j \in 1..n |->
    IF \E d \in 1..Len(diags) : j - i = diags[d]
    THEN data[CHOOSE d \in 1..Len(diags) : j - i = diags[d]][j]
    ELSE Zero])])

\* sp.eye(n, n), sp.vstack((A, B))
eye(n) == AsSeq([i \in 1..n |-> AsSeq([j \in 1..n |-> IF i = j THEN One ELSE Zero])])
vstack(A, B) == A \o B

\* SimPEG.utils.sdiag(d): the diagonal matrix of d, held as its diagonal.
sdiag(d) == [diag |-> d]

\* SimPEG.utils.ndgrid([x, y]): the points (x[i], y[k]) as rows, x running
\* fastest.
ndgrid(x, y) ==
  AsSeq([n \in 1..(Len(x) * Len(y)) |->
    <<x[((n - 1) % Len(x)) + 1], y[((n - 1) \div Len(x)) + 1]>>])

\* Python values passed to the mesh: None, a float, an int, a numpy scalar, a
\* numpy array of ndim dimensions with its entries in data, a list.
PyNone == [type |-> "NoneType", ndim |-> 0, data |-> <<>>]
PyFloat(x) == [type |-> "float", ndim |-> 0, data |-> <<x>>]
PyInt(x) == [type |-> "int", ndim |-> 0, data |-> <<x>>]
NumpyScalar(x) == [type |-> "float64", ndim |-> 0, data |-> <<x>>]
ndarray(x) == [type |-> "ndarray", ndim |-> 1, data |-> x]
ndarray2D(x) == [type |-> "ndarray", ndim |-> 2, data |-> x]
PyList(x) == [type |-> "list", ndim |-> 1, data |-> x]

\* x.size and x.shape exist on numpy values only.
HasSize(x) == x.type \in {"ndarray", "float64"}
size(x) == Len(x.data)

\* SimPEG.utils.mkvc(x): the entries of an array as one vector.
mkvc(x) == x.data

\* x + z0 where z0 is a number or an array of one entry (broadcast).
AddBroadcast(x, z0) == AsSeq([k \in 1..Len(x) |-> CAdd(x[k], z0.data[1])])

\* ---------------------------------------------------------------- Cyl1DMesh

\* A mesh object: the widths and the origin it was built from, and its cached
\* arrays, NoneMat while not computed.
NewCyl1DMesh(_h, _z0) ==
  [_h |-> _h, _z0 |-> _z0, _gridCC |-> NoneMat, _gridN |-> NoneMat,
   _gridFr |-> NoneMat, _gridFz |-> NoneMat, _edge |-> NoneMat,
   _area |-> NoneMat, _vol |-> NoneMat, _edgeCurl |-> NoneMat,
   _aveE2CC |-> NoneMat, _aveF2CC |-> NoneMat]

\* Cyl1DMesh(h, z0): h is the list of the objects passed as widths.
__init__(h, z0) ==
  IF Len(h) # 2 THEN Raise("AssertionError")
  ELSE IF z0 # PyNone /\ ~HasSize(z0) THEN Raise("AttributeError")
  ELSE IF z0 # PyNone /\ size(z0) # 1 THEN Raise("AssertionError")
  ELSE IF \E i \in 1..2 : h[i].type # "ndarray" \/ h[i].ndim # 1
  THEN Raise("AssertionError")
  ELSE Ok(NewCyl1DMesh(<<mkvc(h[1]), mkvc(h[2])>>,
                       IF z0 = PyNone THEN PyInt(Zero) ELSE z0))

hr(self) == self._h[1]
hz(self) == self._h[2]

\* A mesh that counts one node too few in z, to tell apart from nNz.
nNz_as_cells(self) == Len(hz(self))

nCr(self) == Len(hr(self))
nCz(self) == Len(hz(self))
nC(self) == nCr(self) * nCz(self)
nNr(self) == Len(hr(self))
nNz(self) == Len(hz(self)) + 1
nN(self) == nNr(self) * nNz(self)
nFr(self) == nNr(self) * nCz(self)
nFz(self) == nNz(self) * nCr(self)
nF(self) == nFr(self) + nFz(self)
Cyl1D_nE(self) == nN(self)

vectorNr(self) == cumsum(hr(self))
vectorNz(self) == AddBroadcast(r_(<<Zero>>, cumsum(hz(self))), self._z0)

\* x[1:]
FromSecond(x) == AsSeq([k \in 1..Len(x) - 1 |-> x[k + 1]])

\* np.r_[0, hr.cumsum()[1:] - hr[1:]/2]: the innermost centre is the axis.
vectorCCr(self) ==
  r_(<<Zero>>, VSub(FromSecond(cumsum(hr(self))),
                    VScale(Half, FromSecond(hr(self)))))
\* hz.cumsum() - hz/2 + _z0
vectorCCz(self) ==
  AddBroadcast(VSub(cumsum(hz(self)), VScale(Half, hz(self))), self._z0)

gridCC(self) ==
  IF self._gridCC # NoneMat THEN self._gridCC
  ELSE ndgrid(vectorCCr(self), vectorCCz(self))

gridN(self) ==
  IF self._gridN # NoneMat THEN self._gridN
  ELSE ndgrid(vectorNr(self), vectorNz(self))

gridFr(self) ==
  IF self._gridFr # NoneMat THEN self._gridFr
  ELSE ndgrid(vectorNr(self), vectorCCz(self))

gridFz(self) ==
  IF self._gridFz # NoneMat THEN self._gridFz
  ELSE ndgrid(vectorCCr(self), vectorNz(self))

\* 2*pi*gridN[:,0]
edge(self) ==
  IF self._edge # NoneMat THEN self._edge
  ELSE LET N == gridN(self)
       IN TimesPi(AsSeq([n \in 1..Len(N) |-> CMul(Two, N[n][1])]))

\* A wrong ring area, to tell apart from RingArea: the disc inside the outer
\* radius of each ring.
RingArea_disc(self) == TimesPi(Squared(vectorNr(self)))

\* A wrong ring area, to tell apart from RingArea: the inner disc minus the
\* outer one.
RingArea_inner_minus_outer(self) ==
  TimesPi(VSub(Squared(r_(<<Zero>>, AllButLast(vectorNr(self)))),
               Squared(vectorNr(self))))

\* pi*(vectorNr**2 - r_[0, vectorNr[:-1]]**2): the area of each ring.
RingArea(self) ==
  TimesPi(VSub(Squared(vectorNr(self)),
               Squared(r_(<<Zero>>, AllButLast(vectorNr(self))))))

area(self) ==
  IF self._area # NoneMat THEN self._area
  ELSE LET areaR == kron(hz(self), TimesPi(VScale(Two, vectorNr(self))))
           areaZ == kron(ones(Len(vectorNz(self))), RingArea(self))
       IN r_(areaR, areaZ)

vol(self) ==
  IF self._vol # NoneMat THEN self._vol
  ELSE LET az == RingArea(self) IN kron(hz(self), az)

\* 0.5*np.ones((2, n))
HalfOnes(n) == <<VScale(Half, ones(n)), VScale(Half, ones(n))>>

\* The averaging stencil of aveE2CC and aveF2CC from nodes to cells in z.
AveZ(self) == spdiags(HalfOnes(nNz(self)), <<-1, 0>>, nNz(self), nCz(self))

\* A wrong radial stencil, to tell apart from AveR: the innermost weight is
\* left at 0.5.
AveR_no_fix(self) ==
  spdiags(HalfOnes(nCr(self)), <<0, 1>>, nCr(self), nCr(self))

\* The averaging stencil in r, with the single weight 1 on the innermost
\* node (ar[0,0] = 1).
AveR(self) ==
  LET ar == spdiags(HalfOnes(nCr(self)), <<0, 1>>, nCr(self), nCr(self))
  IN [ar EXCEPT ![1][1] = One]

aveE2CC(self) ==
  IF self._aveE2CC # NoneMat THEN self._aveE2CC
  ELSE Transpose(spkron(AveZ(self), AveR(self)))

aveF2CC(self) ==
  IF self._aveF2CC # NoneMat THEN self._aveF2CC
  ELSE LET Afr == spkron(eye(nCz(self)), AveR(self))
           Afz == spkron(AveZ(self), eye(nCr(self)))
       IN Transpose(vstack(Afr, Afz))

\* (np.ones((n, 1))*[-1, 1]).T
MinusPlusOnes(n) == <<VNeg(ones(n)), ones(n)>>

\* The 1-D difference stencils dr and dz of edgeCurl.
DiffR(self) ==
  spdiags(MinusPlusOnes(nCr(self) + 1), <<-1, 0>>, nCr(self), nCr(self))
DiffZ(self) ==
  spdiags(MinusPlusOnes(nCz(self) + 1), <<0, 1>>, nCz(self), nCz(self) + 1)

\* sp.diags(a, 0) * D * sp.diags(e, 0) of a sparse D: only the stored
\* (non-zero) entries of D are scaled, by a of their row and e of their
\* column; the others stay structural zeros.
DiagTimesDiag(a, D, e) ==
  AsSeq([r \in 1..Len(D) |-> AsSeq([c \in 1..Len(D[r]) |->
    IF D[r][c] = Zero THEN Zero ELSE CMul(CMul(a[r], D[r][c]), e[c])])])

\* A wrong curl, to tell apart from edgeCurl: the z differences are not
\* negated.
edgeCurl_not_negated(self) ==
  LET Dr == spkron(eye(nNz(self)), DiffR(self))
      Dz == spkron(DiffZ(self), eye(nCr(self)))
  IN DiagTimesDiag(VInv(area(self)), vstack(Dz, Dr), edge(self))

edgeCurl(self) ==
  IF self._edgeCurl # NoneMat THEN self._edgeCurl
  ELSE LET Dr == spkron(eye(nNz(self)), DiffR(self))
           Dz == MScale(CNeg(One), spkron(DiffZ(self), eye(nCr(self))))
       IN DiagTimesDiag(VInv(area(self)), vstack(Dz, Dr), edge(self))

\* The material property of getMass as a per-cell vector, or the error of
\* its type or shape.
CellProperty(self, materialProp) ==
  IF materialProp = PyNone THEN Ok(ones(nC(self)))
  ELSE IF materialProp.type = "float"
  THEN Ok(VScale(materialProp.data[1], ones(nC(self))))
  ELSE IF materialProp.type # "ndarray" THEN Raise("AttributeError")
  ELSE LET m == IF size(materialProp) = nCz(self)
                THEN repeat(materialProp.data, nCr(self))
                ELSE mkvc(materialProp)
       IN IF Len(m) = nC(self) THEN Ok(m) ELSE Raise("AssertionError")

\* The mass matrix of a per-cell vector m: sdiag(Av.T * (vol * m)), or the
\* error of loc.
MassOf(self, m, loc) ==
  IF loc \notin {"e", "f"} THEN Raise("ValueError")
  ELSE LET Av == IF loc = "e" THEN aveE2CC(self) ELSE aveF2CC(self)
           diag == MatVec(Transpose(Av), VMul(vol(self), m))
       IN Ok(sdiag(diag))

\* A wrong mass matrix, to tell apart from getMass: 1 is added to the
\* material property in every cell.
getMass_plus_one(self, materialProp, loc) ==
  LET m == CellProperty(self, materialProp)
  IN IF m.raised # None THEN m
     ELSE MassOf(self, VAdd(m.value, ones(nC(self))), loc)

\* A wrong mass matrix, to tell apart from getMass: an array of a wrong size
\* is cut or padded with ones to nC entries.
getMass_resized(self, materialProp, loc) ==
  LET m == CellProperty(self, materialProp)
  IN IF m.raised = "AssertionError"
     THEN MassOf(self, AsSeq([n \in 1..nC(self) |->
                   IF n <= size(materialProp) THEN materialProp.data[n]
                   ELSE One]), loc)
     ELSE IF m.raised # None THEN m
     ELSE MassOf(self, m.value, loc)

getMass(self, materialProp, loc) ==
  LET m == CellProperty(self, materialProp)
  IN IF m.raised # None THEN m ELSE MassOf(self, m.value, loc)

\* The attributes and properties of a mesh that can be read.
PropertyNames ==
  {"nCr", "nCz", "nC", "nNr", "nNz", "nN", "nFr", "nFz", "nF", "nE",
   "vectorNr", "vectorNz", "vectorCCr", "vectorCCz", "gridCC", "gridN",
   "gridFr", "gridFz", "edge", "area", "vol", "edgeCurl", "aveE2CC",
   "aveF2CC"}

\* mesh.<name>
Property(self, name) ==
  CASE name = "nCr" -> nCr(self) [] name = "nCz" -> nCz(self)
    [] name = "nC" -> nC(self) [] name = "nNr" -> nNr(self)
    [] name = "nNz" -> nNz(self) [] name = "nN" -> nN(self)
    [] name = "nFr" -> nFr(self) [] name = "nFz" -> nFz(self)
    [] name = "nF" -> nF(self) [] name = "nE" -> Cyl1D_nE(self)
    [] name = "vectorNr" -> vectorNr(self)
    [] name = "vectorNz" -> vectorNz(self)
    [] name = "vectorCCr" -> vectorCCr(self)
    [] name = "vectorCCz" -> vectorCCz(self)
    [] name = "gridCC" -> gridCC(self) [] name = "gridFr" -> gridFr(self)
    [] name = "gridFz" -> gridFz(self) [] name = "edgeCurl" -> edgeCurl(self)
    [] name = "gridN" -> gridN(self) [] name = "edge" -> edge(self)
    [] name = "area" -> area(self) [] name = "vol" -> vol(self)
    [] name = "aveE2CC" -> aveE2CC(self)
    [] name = "aveF2CC" -> aveF2CC(self)

\* A mesh whose getters store nothing, to tell apart from Cached.
Cached_nothing(self, names) == self

\* The mesh after names have been read: each getter stores what it computed;
\* edge reads gridN, and edgeCurl reads area and edge.
Cached(self, names) ==
  [self EXCEPT
     !._gridCC = IF "gridCC" \in names THEN gridCC(self) ELSE @,
     !._gridN = IF names \cap {"gridN", "edge", "edgeCurl"} # {}
                THEN gridN(self) ELSE @,
     !._gridFr = IF "gridFr" \in names THEN gridFr(self) ELSE @,
     !._gridFz = IF "gridFz" \in names THEN gridFz(self) ELSE @,
     !._edge = IF names \cap {"edge", "edgeCurl"} # {} THEN edge(self) ELSE @,
     !._area = IF names \cap {"area", "edgeCurl"} # {} THEN area(self) ELSE @,
     !._vol = IF "vol" \in names THEN vol(self) ELSE @,
     !._edgeCurl = IF "edgeCurl" \in names THEN edgeCurl(self) ELSE @,
     !._aveE2CC = IF "aveE2CC" \in names THEN aveE2CC(self) ELSE @,
     !._aveF2CC = IF "aveF2CC" \in names THEN aveF2CC(self) ELSE @]

\* The quantities whose getter stores its result: "if self._x is None".  The
\* counts and the 1-D vectors are plain lambdas.
MemoizedNames ==
  {"gridCC", "gridN", "gridFr", "gridFz", "edge", "area", "vol", "edgeCurl",
   "aveE2CC", "aveF2CC"}

\* self._<name>
Memo(self, name) ==
  CASE name = "gridCC" -> self._gridCC [] name = "gridN" -> self._gridN
    [] name = "gridFr" -> self._gridFr [] name = "gridFz" -> self._gridFz
    [] name = "edge" -> self._edge [] name = "area" -> self._area
    [] name = "vol" -> self._vol [] name = "edgeCurl" -> self._edgeCurl
    [] name = "aveE2CC" -> self._aveE2CC
    [] name = "aveF2CC" -> self._aveF2CC

\* The properties of the mesh the expression that computes name reads, one
\* entry per read, in the order of the reads.
Reads(name) ==
  CASE name = "nC" -> <<"nCr", "nCz">>
    [] name = "nN" -> <<"nNr", "nNz">>
    [] name = "nFr" -> <<"nNr", "nCz">>
    [] name = "nFz" -> <<"nNz", "nCr">>
    [] name = "nF" -> <<"nFr", "nFz">>
    [] name = "nE" -> <<"nN">>
    [] name = "gridCC" -> <<"vectorCCr", "vectorCCz">>
    [] name = "gridN" -> <<"vectorNr", "vectorNz">>
    [] name = "gridFr" -> <<"vectorNr", "vectorCCz">>
    [] name = "gridFz" -> <<"vectorCCr", "vectorNz">>
    [] name = "edge" -> <<"gridN">>
    [] name = "area" -> <<"vectorNr", "vectorNz", "vectorNr", "vectorNr">>
    [] name = "vol" -> <<"vectorNr", "vectorNr">>
    [] name = "edgeCurl" ->
         <<"nCr", "nCr", "nCr", "nCz", "nCz", "nCz", "nNz", "nCr", "area",
           "edge">>
    [] name = "aveE2CC" -> <<"nNz", "nNz", "nCz", "nCr", "nCr", "nCr">>
    [] name = "aveF2CC" ->
         <<"nNz", "nNz", "nCz", "nCr", "nCr", "nCr", "nCz", "nCr">>
    [] OTHER -> <<>>

\* The getters whose computing expression runs when name is read on self,
\* one entry per run: none for a filled cache, else name and what the reads
\* of its expression run.  (No expression reads a memoized quantity twice,
\* so the caches filled on the way do not change the runs.)
RECURSIVE Evaluations(_, _)
RECURSIVE EvaluationsOfAll(_, _)
Evaluations(self, name) ==
  IF name \in MemoizedNames /\ Memo(self, name) # NoneMat THEN <<>>
  ELSE <<name>> \o EvaluationsOfAll(self, Reads(name))
EvaluationsOfAll(self, names) ==
  IF names = <<>> THEN <<>>
  ELSE Evaluations(self, Head(names)) \o EvaluationsOfAll(self, Tail(names))

\* The properties getMass reads up to its return or its error.
MassReads(self, materialProp, loc) ==
  LET m == CellProperty(self, materialProp)
      shape == IF materialProp = PyNone \/ materialProp.type = "float"
               THEN <<"nC", "nC">>
               ELSE IF materialProp.type # "ndarray" THEN <<>>
               ELSE IF size(materialProp) = nCz(self)
               THEN <<"nCz", "nCr", "nC">>
               ELSE <<"nCz", "nC">>
  IN IF m.raised # None \/ loc \notin {"e", "f"} THEN shape
     ELSE shape \o <<IF loc = "e" THEN "aveE2CC" ELSE "aveF2CC", "vol">>

\* How often a getter's expression has run: "never", "once", "repeatedly".
Tallied(tally, runs) ==
  [name \in DOMAIN tally |->
     LET k == Cardinality({i \in 1..Len(runs) : runs[i] = name})
     IN IF k = 0 THEN tally[name]
        ELSE IF k = 1 /\ tally[name] = "never" THEN "once"
        ELSE "repeatedly"]

\* History of the accesses of one mesh: how many operations were made,
\* whether the last one read a property that had been read before, how
\* often each getter's expression has run, and what each property returned
\* when it was first read (<<>> while it was not read).
NothingSeen ==
  [ops |-> 0, again |-> FALSE,
   tally |-> [name \in PropertyNames |-> "never"],
   first |-> [name \in PropertyNames |-> <<>>]]
SeenGet(h, self, name) ==
  [ops |-> h.ops + 1, again |-> h.first[name] # <<>>,
   tally |-> Tallied(h.tally, Evaluations(self, name)),
   first |-> IF h.first[name] # <<>> THEN h.first
             ELSE [h.first EXCEPT ![name] = <<Property(self, name)>>]]
SeenMass(h, self, materialProp, loc) ==
  [h EXCEPT !.ops = @ + 1, !.again = FALSE,
            !.tally = Tallied(@, EvaluationsOfAll(self,
                                   MassReads(self, materialProp, loc)))]

\* What the last operation on the mesh was, and what it returned or raised.
Outcome(op, args, r) ==
  [op |-> op, args |-> args, raised |-> r.raised, value |-> r.value]
NoOutcome == Outcome(None, <<>>, Ok(<<>>))

\* No mesh has been constructed.
NoCyl1DMesh == NewCyl1DMesh(<<<<>>, <<>>>>, PyNone)

\* The width arrays offered to the constructor: up to MaxNCr radial widths
\* out of 0, 1, 2 (a zero width is not refused) and up to MaxNCz vertical
\* widths out of 1, 2.
RadialWidths == {Zero, One, Two}
VerticalWidths == {One, Two}
Arrays(S, n) == UNION {{AsSeq(f) : f \in [1..k -> S]} : k \in 1..n}

\* The origins offered: none, a Python float, a numpy scalar, an array of
\* one entry, an array of two.
Origins ==
  {PyNone, PyFloat(One), NumpyScalar(One), ndarray(<<One>>),
   ndarray(<<One, Two>>)}

\* Lists h that are not two 1D arrays: one array, three arrays, a Python
\* list among them, a 2D array among them.
Malformed ==
  {<<ndarray(<<One>>)>>,
   <<ndarray(<<One>>), ndarray(<<One>>), ndarray(<<One>>)>>,
   <<PyList(<<One, Two>>), ndarray(<<One>>)>>,
   <<ndarray(<<One, Two>>), ndarray2D(<<One, Two>>)>>}

\* The constructor calls offered: every pair of width arrays without an
\* origin, and every origin with one pair of arrays and with the malformed
\* lists.
ConstructorCalls ==
  {[h |-> <<ndarray(x), ndarray(y)>>, z0 |-> PyNone] :
     x \in Arrays(RadialWidths, MaxNCr), y \in Arrays(VerticalWidths, MaxNCz)}
  \cup {[h |-> <<ndarray(<<One, Two>>), ndarray(<<Two>>)>>, z0 |-> z] :
          z \in Origins}
  \cup {[h |-> h, z0 |-> z] : h \in Malformed, z \in Origins}

\* The material properties offered to getMass on a mesh: none, a float, an
\* int, and an array of 1, of nCz, of nC and of nC + 1 entries.
PropertyArray(n) == AsSeq([i \in 1..n |-> Cx(((i * i + i \div 3) % 3) + 1, 0)])
MaterialProps(self) ==
  {PyNone, PyFloat(One), PyFloat(Two), PyInt(Two)}
  \cup {ndarray(PropertyArray(n)) :
          n \in {1, nCz(self), nC(self), nC(self) + 1}}
Locs == {"e", "f", "n"}

\* ------------------------------------------------------------------- Data

\* n entries c.
Full(n, c) == AsSeq([k \in 1..n |-> c])

\* np.nan: the exact numbers have one value that is not a number.
nan == NonFinite
isnan(x) == x = nan

\* Python objects used as keys: sources, receivers, tuples and lists.
SrcObject(name) == [type |-> "BaseSrc", name |-> name]
RxObject(name) == [type |-> "BaseRx", name |-> name]
PyTuple(items) == [type |-> "tuple", items |-> items]
PyListOf(items) == [type |-> "list", items |-> items]
BaseSurvey(srcList) == [type |-> "BaseSurvey", srcList |-> srcList]
IsNone(x) == x.type = "NoneType"

\* The sources and receivers that exist: rxQ is a receiver of two sources,
\* and srcC is a source of no survey.
rxList(src) ==
  CASE src.name = "srcA" -> <<RxObject("rxP"), RxObject("rxQ")>>
    [] src.name = "srcB" -> <<RxObject("rxQ")>>
    [] src.name = "srcC" -> <<RxObject("rxP")>>

\* rx.nD
rx_nD(rx) == IF rx.name = "rxQ" THEN MaxRxND ELSE 1

\* x in list
InList(x, list) == \E i \in 1..Len(list) : list[i] = x

\* survey.nD: the number of data of all receivers of all sources.
RECURSIVE SumOf_nD(_)
SumOf_nD(rxs) ==
  IF rxs = <<>> THEN 0 ELSE rx_nD(Head(rxs)) + SumOf_nD(Tail(rxs))
RECURSIVE Survey_nD(_)
Survey_nD(srcList) ==
  IF srcList = <<>> THEN 0
  ELSE SumOf_nD(rxList(Head(srcList))) + Survey_nD(Tail(srcList))

\* np.arange(a, b)
arange(a, b) == AsSeq([k \in 1..(b - a) |-> a + k - 1])

\* arr[inds], and arr after arr[inds] = value; inds count from 0.
Take(arr, inds) == AsSeq([k \in 1..Len(inds) |-> arr[inds[k] + 1]])
Put(arr, inds, value) ==
  AsSeq([n \in 1..Len(arr) |->
    IF \E k \in 1..Len(inds) : inds[k] + 1 = n
    THEN value[CHOOSE k \in 1..Len(inds) : inds[k] + 1 = n]
    ELSE arr[n]])

\* A dict with no key, d[key], d[key] = value, key in d, and len(d).
EmptyDict == [type |-> "dict", items |-> <<>>]
DictGet(d, key) == d.items[key]
DictSet(d, key, value) == [d EXCEPT !.items = (key :> value) @@ @]
DictHas(d, key) == key \in DOMAIN d.items
DictLen(d) == Cardinality(DOMAIN d.items)

\* A data object as constructed with no keyword: no property is set.
NewDataObject(cls) ==
  [cls |-> cls, survey |-> PyNone, _data_dict |-> PyNone, dobs |-> PyNone,
   standard_deviation |-> PyNone, noise_floor |-> PyNone]

\* The inner loop of _create_data_dict over the receivers of src.
RECURSIVE IndicesOfSrc(_, _, _, _, _)
IndicesOfSrc(dict, src, rxs, indBot, indTop) ==
  IF rxs = <<>> THEN [dict |-> dict, indBot |-> indBot, indTop |-> indTop]
  ELSE LET rx == Head(rxs)
           top == indTop + rx_nD(rx)
           d == DictSet(dict, src,
                        DictSet(DictGet(dict, src), rx,
                                arange(indBot, top)))
       IN IndicesOfSrc(d, src, Tail(rxs), indBot + rx_nD(rx), top)

\* The outer loop of _create_data_dict over the sources.
RECURSIVE IndicesOfSurvey(_, _, _, _)
IndicesOfSurvey(dict, srcs, indBot, indTop) ==
  IF srcs = <<>> THEN dict
  ELSE LET r == IndicesOfSrc(dict, Head(srcs), rxList(Head(srcs)),
                             indBot, indTop)
       IN IndicesOfSurvey(r.dict, Tail(srcs), r.indBot, r.indTop)

\* Index ranges that start again from 0 at every source, to tell apart from
\* _create_data_dict.
RECURSIVE IndicesFromZero(_, _)
IndicesFromZero(dict, srcs) ==
  IF srcs = <<>> THEN dict
  ELSE IndicesFromZero(
         IndicesOfSrc(dict, Head(srcs), rxList(Head(srcs)), 0, 0).dict,
         Tail(srcs))
_create_data_dict_from_zero(self, survey) ==
  LET empty == [EmptyDict EXCEPT !.items =
                  [src \in {survey.srcList[i] : i \in 1..Len(survey.srcList)}
                     |-> EmptyDict]]
  IN [self EXCEPT !._data_dict = IndicesFromZero(empty, self.survey.srcList)]

\* The observer of survey: an empty dict per source of the new survey, then
\* the index range of every receiver of every source of self.survey.
_create_data_dict(self, survey) ==
  LET empty == [EmptyDict EXCEPT !.items =
                  [src \in {survey.srcList[i] : i \in 1..Len(survey.srcList)}
                     |-> EmptyDict]]
  IN [self EXCEPT
        !._data_dict = IndicesOfSurvey(empty, self.survey.srcList, 0, 0)]

\* self.survey = survey
SetSurvey(self, survey) ==
  _create_data_dict([self EXCEPT !.survey = survey], survey)

\* Data(dobs=dobs, survey=survey) and SyntheticData(...): either keyword may
\* be left out (None).
Data__init__(cls, dobs, survey) ==
  LET self == IF ~IsNone(dobs) THEN [NewDataObject(cls) EXCEPT !.dobs = dobs]
              ELSE NewDataObject(cls)
  IN IF ~IsNone(survey) THEN SetSurvey(self, survey) ELSE self

\* Data.nD: len(self.dobs)
Data_nD(self) ==
  IF IsNone(self.dobs) THEN Raise("TypeError") ELSE Ok(Len(self.dobs.data))

\* A key check that reads the first two entries of a longer tuple, to tell
\* apart from _ensureCorrectKey.
_ensureCorrectKey_first_two(self, key) ==
  IF key.type = "tuple"
  THEN IF Len(key.items) < 2 THEN Raise("KeyError")
       ELSE IF IsNone(self.survey) THEN Raise("AttributeError")
       ELSE IF ~InList(key.items[1], self.survey.srcList)
       THEN Raise("KeyError")
       ELSE IF ~InList(key.items[2], rxList(key.items[1]))
       THEN Raise("KeyError")
       ELSE Ok(<<key.items[1], key.items[2]>>)
  ELSE IF key.type = "BaseSrc"
  THEN IF IsNone(self.survey) THEN Raise("AttributeError")
       ELSE IF ~InList(key, self.survey.srcList) THEN Raise("KeyError")
       ELSE Ok(<<key, PyNone>>)
  ELSE Raise("KeyError")

\* The source and the receiver of a key (None with a source alone), or the
\* error of the key.
_ensureCorrectKey(self, key) ==
  IF key.type = "tuple"
  THEN IF Len(key.items) # 2 THEN Raise("KeyError")
       ELSE IF IsNone(self.survey) THEN Raise("AttributeError")
       ELSE IF ~InList(key.items[1], self.survey.srcList)
       THEN Raise("KeyError")
       ELSE IF ~InList(key.items[2], rxList(key.items[1]))
       THEN Raise("KeyError")
       ELSE Ok(<<key.items[1], key.items[2]>>)
  ELSE IF key.type = "BaseSrc"
  THEN IF IsNone(self.survey) THEN Raise("AttributeError")
       ELSE IF ~InList(key, self.survey.srcList) THEN Raise("KeyError")
       ELSE Ok(<<key, PyNone>>)
  ELSE Raise("KeyError")

\* What a method that may assign to self gives: what it raised or returned,
\* and self after it.
Done(r, self) == [raised |-> r.raised, value |-> r.value, self |-> self]

\* if len(self._data_dict) == 0: self._create_data_dict(...)
WithDataDict(self) ==
  IF DictLen(self._data_dict) = 0
  THEN _create_data_dict(self, self.survey) ELSE self

\* The checks of key and value that the two setters share.
SetChecks(self, key, value) ==
  LET k == _ensureCorrectKey(self, key)
  IN IF k.raised # None THEN k
     ELSE IF IsNone(k.value[2]) THEN Raise("AssertionError")
     ELSE IF value.type # "ndarray" THEN Raise("AssertionError")
     ELSE IF size(value) # rx_nD(k.value[2]) THEN Raise("AssertionError")
     ELSE k

\* A setter that overwrites, to tell apart from _set_data_properties.
_set_data_properties_overwriting(self, key, value) ==
  LET k == SetChecks(self, key, value)
  IN IF k.raised # None THEN Done(k, self)
     ELSE LET s == WithDataDict(self)
              inds == DictGet(DictGet(s._data_dict, k.value[1]), k.value[2])
              arr == IF IsNone(s.dobs)
                     THEN VScale(nan, ones(Survey_nD(s.survey.srcList)))
                     ELSE s.dobs.data
          IN Done(Ok(<<>>),
                  [s EXCEPT !.dobs = ndarray(Put(arr, inds, mkvc(value)))])

\* A setter that cuts or pads the value to the receiver's number of data, to
\* tell apart from _set_data_properties.
_set_data_properties_resizing(self, key, value) ==
  LET k == _ensureCorrectKey(self, key)
  IN IF k.raised # None THEN Done(k, self)
     ELSE IF IsNone(k.value[2]) \/ value.type # "ndarray"
     THEN Done(Raise("AssertionError"), self)
     ELSE LET s == WithDataDict(self)
              inds == DictGet(DictGet(s._data_dict, k.value[1]), k.value[2])
              arr == IF IsNone(s.dobs)
                     THEN VScale(nan, ones(Survey_nD(s.survey.srcList)))
                     ELSE s.dobs.data
              v == AsSeq([n \in 1..Len(inds) |->
                     IF n <= size(value) THEN mkvc(value)[n] ELSE One])
          IN IF ~IsNone(s.dobs) /\ \E n \in 1..Len(inds) :
                                   ~isnan(Take(arr, inds)[n])
             THEN Done(Raise("Exception"), self)
             ELSE Done(Ok(<<>>), [s EXCEPT !.dobs = ndarray(Put(arr, inds, v))])

\* Data._set_data_properties(key, value, arr_name='dobs')
_set_data_properties(self, key, value) ==
  LET k == SetChecks(self, key, value)
  IN IF k.raised # None THEN Done(k, self)
     ELSE LET s == WithDataDict(self)
              inds == DictGet(DictGet(s._data_dict, k.value[1]), k.value[2])
              arr == IF IsNone(s.dobs)
                     THEN VScale(nan, ones(Survey_nD(s.survey.srcList)))
                     ELSE s.dobs.data
          IN IF ~IsNone(s.dobs) /\ \E n \in 1..Len(inds) :
                                   ~isnan(Take(arr, inds)[n])
             THEN Done(Raise("Exception"), s)
             ELSE Done(Ok(<<>>),
                       [s EXCEPT
                          !.dobs = ndarray(Put(arr, inds, mkvc(value)))])

\* SyntheticData.__setitem__(key, value)
SyntheticData__setitem__(self, key, value) ==
  LET k == SetChecks(self, key, value)
  IN IF k.raised # None THEN Done(k, self)
     ELSE LET inds == DictGet(DictGet(self._data_dict, k.value[1]), k.value[2])
              arr == IF IsNone(self.dobs)
                     THEN VScale(nan, ones(Survey_nD(self.survey.srcList)))
                     ELSE self.dobs.data
          IN Done(Ok(<<>>),
                  [self EXCEPT !.dobs = ndarray(Put(arr, inds, mkvc(value)))])

\* data[key] = value
__setitem__(self, key, value) ==
  IF self.cls = "SyntheticData"
  THEN SyntheticData__setitem__(self, key, value)
  ELSE _set_data_properties(self, key, value)

\* np.concatenate of a list of arrays; an empty list is refused.
RECURSIVE Joined(_)
Joined(arrays) ==
  IF arrays = <<>> THEN <<>> ELSE Head(arrays) \o Joined(Tail(arrays))
concatenate(arrays) ==
  IF arrays = <<>> THEN Raise("ValueError") ELSE Ok(Joined(arrays))

\* A getter that joins the receivers of a source in the reverse order, to
\* tell apart from _get_data_properties.
_get_data_properties_reversed(self, key) ==
  LET k == _ensureCorrectKey(self, key)
  IN IF k.raised # None THEN Done(k, self)
     ELSE IF IsNone(self.dobs) THEN Done(Raise("TypeError"), self)
     ELSE IF ~IsNone(k.value[2])
     THEN Done(Ok(Take(self.dobs.data,
                       DictGet(DictGet(self._data_dict, k.value[1]),
                               k.value[2]))),
               self)
     ELSE LET rxs == rxList(k.value[1])
          IN Done(concatenate(AsSeq([i \in 1..Len(rxs) |->
                    Take(self.dobs.data,
                         DictGet(DictGet(self._data_dict, k.value[1]),
                                 rxs[Len(rxs) + 1 - i]))])),
                  self)

\* Data._get_data_properties(key, arr_name='dobs')
_get_data_properties(self, key) ==
  LET k == _ensureCorrectKey(self, key)
  IN IF k.raised # None THEN Done(k, self)
     ELSE LET s == WithDataDict(self)
              src == k.value[1]
              rx == k.value[2]
              rxs == rxList(src)
          IN IF ~IsNone(rx)
             THEN IF ~DictHas(DictGet(s._data_dict, src), rx)
                  THEN Done(Raise("Exception"), s)
                  ELSE IF IsNone(s.dobs) THEN Done(Raise("TypeError"), s)
                  ELSE Done(Ok(Take(s.dobs.data,
                                    DictGet(DictGet(s._data_dict, src), rx))),
                            s)
             ELSE IF rxs # <<>> /\ IsNone(s.dobs)
             THEN Done(Raise("TypeError"), s)
             ELSE Done(concatenate(AsSeq([i \in 1..Len(rxs) |->
                         Take(s.dobs.data,
                              DictGet(DictGet(s._data_dict, src), rxs[i]))])),
                       s)

\* data[key]
__getitem__(self, key) == _get_data_properties(self, key)

\* The names the module binds: its imports and its classes.
ModuleGlobals ==
  {"properties", "np", "BaseSurvey", "BaseSrc", "mkvc", "UncertaintyArray",
   "Data", "SyntheticData"}

\* The current name of a deprecated alias.
CurrentName(alias) ==
  IF alias = "std" THEN "standard_deviation" ELSE "noise_floor"

\* self.standard_deviation and self.noise_floor
GetUncertainty(self, name) ==
  IF name = "standard_deviation" THEN self.standard_deviation
  ELSE self.noise_floor

\* self.standard_deviation = value and self.noise_floor = value, for a float:
\* the validator makes it np.ones(self.nD) * value.
SetUncertainty(self, name, value) ==
  LET n == Data_nD(self)
  IN IF n.raised # None THEN Done(n, self)
     ELSE LET arr == VScale(value.data[1], ones(n.value))
          IN Done(Ok(<<>>),
                  IF name = "standard_deviation"
                  THEN [self EXCEPT !.standard_deviation = ndarray(arr)]
                  ELSE [self EXCEPT !.noise_floor = ndarray(arr)])

\* data.std and data.eps: warnings.warn(...) and then the current name.
GetAlias(self, alias) ==
  IF "warnings" \notin ModuleGlobals THEN Done(Raise("NameError"), self)
  ELSE Done(Ok(GetUncertainty(self, CurrentName(alias))), self)

\* data.std = value and data.eps = value
SetAlias(self, alias, value) ==
  IF "warnings" \notin ModuleGlobals THEN Done(Raise("NameError"), self)
  ELSE SetUncertainty(self, CurrentName(alias), value)

\* No data object has been constructed.
NoData == NewDataObject(None)

\* The surveys offered: the two sources in either order.
Surveys ==
  {BaseSurvey(<<SrcObject("srcA"), SrcObject("srcB")>>),
   BaseSurvey(<<SrcObject("srcB"), SrcObject("srcA")>>)}

\* The keys offered: the pairs of a source and one of its receivers; tuples
\* of one entry and of three; a source of no survey; a receiver of another
\* source; a source of the survey and a source of no survey alone, a
\* receiver alone, and a list.
Keys ==
  LET A == SrcObject("srcA")
      B == SrcObject("srcB")
      C == SrcObject("srcC")
      P == RxObject("rxP")
      Q == RxObject("rxQ")
  IN {PyTuple(<<A, P>>), PyTuple(<<A, Q>>), PyTuple(<<B, Q>>),
      PyTuple(<<A>>), PyTuple(<<A, P, Q>>), PyTuple(<<C, P>>),
      PyTuple(<<B, P>>), A, C, P, PyListOf(<<A, P>>)}

\* The values offered: arrays of 1 and of MaxRxND entries, all 2 or nan
\* followed by 1; an array of MaxRxND + 1 entries; and a list.
Values ==
  {ndarray(x) : x \in UNION {{Full(n, Two), <<nan>> \o Full(n - 1, One)} :
                              n \in {1, MaxRxND}}}
  \cup {ndarray(Full(MaxRxND + 1, Two)), PyList(<<One>>)}

\* The relative uncertainties offered.
Uncertainties == {PyFloat(Half)}

\* ------------------------------------------------------------ state machine

VARIABLES
  rx,     \* the receiver object: its attributes, bindings and cached matrices
  pc,     \* per caller: "ready" (no call yet), "bound" (inside a call, after
          \* the rebinding), "done" (the call has returned)
  call,   \* per caller: the arguments of its current or last call
  ret,    \* per caller: what its last call returned or raised
  rebound, \* history: the most recent rebinding replaced a bound source and
           \* a bound field object by other ones
  cyl,    \* the cylindrical mesh object: its widths, origin and cached arrays
  out,    \* the last operation on the mesh or on the data object, and what
          \* it returned or raised
  seen,   \* history: the accesses of the mesh so far
  data    \* the data object: its survey, index ranges and arrays

vars == <<rx, pc, call, ret, rebound, cyl, out, seen, data>>

Callers == {1, 2}

NoCall ==
  [op |-> None, src |-> None, mesh |-> NoneMesh, f |-> NoneField,
   return_complex |-> FALSE, v |-> <<>>, adjoint |-> FALSE]

EvalCall(src, mesh, f, return_complex) ==
  [op |-> "eval", src |-> src, mesh |-> mesh, f |-> f,
   return_complex |-> return_complex, v |-> <<>>, adjoint |-> FALSE]

EvalDerivCall(src, mesh, f, v, adjoint) ==
  [op |-> "evalDeriv", src |-> src, mesh |-> mesh, f |-> f,
   return_complex |-> FALSE, v |-> v, adjoint |-> adjoint]

NoRet == Ok(<<>>)

\* The three transient bindings of a receiver, as one record.
Bindings(self) == [src |-> self._src, mesh |-> self._mesh, f |-> self._f]

\* Wrong rebindings, to tell apart from Bind: a field object, or a source,
\* already bound is kept.
Bind_keeps_field(self, src, mesh, f) ==
  [self EXCEPT !._src = src, !._mesh = mesh,
               !._f = IF @ = NoneField THEN f ELSE @]
Bind_keeps_source(self, src, mesh, f) ==
  [self EXCEPT !._src = IF @ = None THEN src ELSE @, !._mesh = mesh, !._f = f]

\* self._src = src; self._mesh = mesh; self._f = f
Bind(self, src, mesh, f) ==
  [self EXCEPT !._src = src, !._mesh = mesh, !._f = f]

Supported(self) ==
  CASE self.variant = "impedance1D" -> TRUE
    [] self.variant = "impedance3D" -> self.orientation \in {"xx", "xy", "yx", "yy"}
    [] self.variant = "tipper3D" -> self.orientation \in {"zx", "zy"}
    [] self.variant = "horizontalmagvar3D" ->
         self.orientation \in {"xx", "xy", "yx", "yy"}

\* The interpolation properties a call reads.  With an orientation no branch
\* handles, eval gets as far as self._Hd, and adjoint evalDeriv reads nothing.
UsedProps(self, c) ==
  IF self.variant = "impedance1D" THEN {"Pex_1D", "Pbx_1D"}
  ELSE IF ~Supported(self)
  THEN IF c.op = "evalDeriv" /\ c.adjoint THEN {} ELSE {"Pbx", "Pby"}
  ELSE {"Pbx", "Pby"} \cup
       CASE self.variant = "impedance3D" ->
              IF self.orientation \in {"xx", "xy"} THEN {"Pex"} ELSE {"Pey"}
         [] self.variant = "tipper3D" -> {"Pbz"}
         [] self.variant = "horizontalmagvar3D" ->
              IF self.orientation \in {"xx", "xy"} THEN {"Pbx_num"} ELSE {"Pby_num"}

\* The receiver after the properties in names were read: each is cached.
Touch(self, names) ==
  [self EXCEPT
     !._Pex = IF "Pex" \in names THEN Pex(self)
              ELSE IF "Pex_1D" \in names THEN Pex_1D(self) ELSE @,
     !._Pey = IF "Pey" \in names THEN Pey(self) ELSE @,
     !._Pbx = IF "Pbx" \in names THEN Pbx(self)
              ELSE IF "Pbx_1D" \in names THEN Pbx_1D(self) ELSE @,
     !._Pby = IF "Pby" \in names THEN Pby(self) ELSE @,
     !._Pbz = IF "Pbz" \in names THEN Pbz(self) ELSE @,
     !._Pbx_num = IF "Pbx_num" \in names THEN Pbx_num(self) ELSE @,
     !._Pby_num = IF "Pby_num" \in names THEN Pby_num(self) ELSE @]

\* The method of the receiver's class.
eval(self, return_complex) ==
  CASE self.variant = "impedance1D" -> Point_impedance1D_eval(self, return_complex)
    [] self.variant = "impedance3D" -> Point_impedance3D_eval(self, return_complex)
    [] self.variant = "tipper3D" -> Point_tipper3D_eval(self, return_complex)
    [] self.variant = "horizontalmagvar3D" ->
         Point_horizontalmagvar3D_eval(self, return_complex)

evalDeriv(self, v, adjoint) ==
  CASE self.variant = "impedance1D" -> Point_impedance1D_evalDeriv(self, v, adjoint)
    [] self.variant = "impedance3D" -> Point_impedance3D_evalDeriv(self, v, adjoint)
    [] self.variant = "tipper3D" -> Point_tipper3D_evalDeriv(self, v, adjoint)
    [] self.variant = "horizontalmagvar3D" ->
         Point_horizontalmagvar3D_evalDeriv(self, v, adjoint)

\* A body that reads its own arguments instead of the receiver's bindings,
\* to tell apart from Body.
Body_own_arguments(self, c) ==
  IF c.op = "eval" THEN eval(Bind(self, c.src, c.mesh, c.f), c.return_complex)
  ELSE evalDeriv(Bind(self, c.src, c.mesh, c.f), c.v, c.adjoint)

\* What the body of a call returns, computed through the receiver's
\* bindings and cache as they are when the body runs.
Body(self, c) ==
  IF c.op = "eval" THEN eval(self, c.return_complex)
  ELSE evalDeriv(self, c.v, c.adjoint)

\* The nested self.eval(...) of evalDeriv rebinds: the 1D receiver and the
\* tipper pass (src, mesh, f), the impedance passes the bound objects, the
\* horizontal-magnetic receiver passes src and the bound mesh and field.
NestedBind(self, c) ==
  IF c.op = "eval" THEN self
  ELSE IF self.variant = "impedance1D" THEN Bind(self, c.src, c.mesh, c.f)
  ELSE IF c.adjoint THEN self
  ELSE IF self.variant = "tipper3D" THEN Bind(self, c.src, c.mesh, c.f)
  ELSE IF self.variant = "horizontalmagvar3D"
  THEN Bind(self, c.src, self._mesh, self._f)
  ELSE self

Init ==
  /\ rx \in Receivers
  /\ pc = [t \in Callers |-> "ready"]
  /\ call = [t \in Callers |-> NoCall]
  /\ ret = [t \in Callers |-> NoRet]
  /\ rebound = FALSE
  /\ cyl = NoCyl1DMesh
  /\ out = NoOutcome
  /\ seen = NothingSeen
  /\ data = NoData

\* A caller enters eval(src, mesh, f, return_complex): the rebinding.
EnterEval(t, src, mesh, f, return_complex) ==
  /\ pc[t] \in {"ready", "done"}
  /\ rx' = Bind(rx, src, mesh, f)
  /\ call' = [call EXCEPT ![t] = EvalCall(src, mesh, f, return_complex)]
  /\ pc' = [pc EXCEPT ![t] = "bound"]
  /\ ret' = [ret EXCEPT ![t] = NoRet]
  /\ rebound' = (rx._src \notin {None, src} /\ rx._f \notin {NoneField, f})
  /\ UNCHANGED <<cyl, out, seen, data>>

\* A caller enters evalDeriv(src, mesh, f, v, adjoint): the rebinding.
EnterEvalDeriv(t, src, mesh, f, v, adjoint) ==
  /\ pc[t] \in {"ready", "done"}
  /\ rx' = Bind(rx, src, mesh, f)
  /\ call' = [call EXCEPT ![t] = EvalDerivCall(src, mesh, f, v, adjoint)]
  /\ pc' = [pc EXCEPT ![t] = "bound"]
  /\ ret' = [ret EXCEPT ![t] = NoRet]
  /\ rebound' = (rx._src \notin {None, src} /\ rx._f \notin {NoneField, f})
  /\ UNCHANGED <<cyl, out, seen, data>>

\* The rest of the call: the fields are read through the bindings, the
\* interpolation matrices read are cached, the value is returned.
Return(t) ==
  /\ pc[t] = "bound"
  /\ ret' = [ret EXCEPT ![t] = Body(rx, call[t])]
  /\ rx' = NestedBind(Touch(rx, UsedProps(rx, call[t])), call[t])
  /\ pc' = [pc EXCEPT ![t] = "done"]
  /\ UNCHANGED <<call, rebound, cyl, out, seen, data>>

\* Sequential use: one caller, one call at a time.
Next ==
  \/ \E src \in Sources, mesh \in Meshes, f \in Fields, rc \in BOOLEAN :
       EnterEval(1, src, mesh, f, rc)
  \/ \E src \in Sources, mesh \in Meshes, f \in Fields, v \in ModelVecs :
       EnterEvalDeriv(1, src, mesh, f, v, FALSE)
  \/ \E src \in Sources, mesh \in Meshes, f \in Fields, u \in DataVecs :
       EnterEvalDeriv(1, src, mesh, f, u, TRUE)
  \/ Return(1)

Spec == Init /\ [][Next]_vars

\* One call on a newly constructed receiver.
NextCall ==
  \/ \E src \in Sources, mesh \in Meshes, f \in Fields, rc \in BOOLEAN :
       pc[1] = "ready" /\ EnterEval(1, src, mesh, f, rc)
  \/ \E src \in Sources, mesh \in Meshes, f \in Fields, v \in ModelVecs :
       pc[1] = "ready" /\ EnterEvalDeriv(1, src, mesh, f, v, FALSE)
  \/ \E src \in Sources, mesh \in Meshes, f \in Fields, u \in DataVecs :
       pc[1] = "ready" /\ EnterEvalDeriv(1, src, mesh, f, u, TRUE)
  \/ Return(1)

SpecCall == Init /\ [][NextCall]_vars

\* Two callers sharing one receiver, each making one eval call; the steps of
\* the two calls interleave freely.
NextConc ==
  \E t \in Callers :
    \/ \E src \in Sources, mesh \in Meshes, f \in Fields :
         pc[t] = "ready" /\ EnterEval(t, src, mesh, f, TRUE)
    \/ Return(t)

SpecConc == Init /\ [][NextConc]_vars

\* ------------------------------------------------- operations on the mesh

\* Cyl1DMesh(h, z0)
Construct(h, z0) ==
  /\ cyl = NoCyl1DMesh
  /\ LET r == __init__(h, z0)
     IN /\ cyl' = IF r.raised = None THEN r.value ELSE cyl
        /\ out' = Outcome("__init__", <<h, z0>>,
                          IF r.raised = None THEN Ok(<<>>) ELSE r)
  /\ UNCHANGED <<rx, pc, call, ret, rebound, seen, data>>

\* mesh.<name>
Get(name) ==
  /\ cyl # NoCyl1DMesh
  /\ out' = Outcome(name, <<>>, Ok(Property(cyl, name)))
  /\ cyl' = Cached(cyl, {name})
  /\ seen' = SeenGet(seen, cyl, name)
  /\ UNCHANGED <<rx, pc, call, ret, rebound, data>>

\* mesh.getMass(materialProp, loc)
GetMass(materialProp, loc) ==
  /\ cyl # NoCyl1DMesh
  /\ LET r == getMass(cyl, materialProp, loc)
     IN /\ out' = Outcome("getMass", <<materialProp, loc>>, r)
        /\ cyl' = IF r.raised # None THEN cyl
                  ELSE Cached(cyl, {"vol", IF loc = "e" THEN "aveE2CC"
                                           ELSE "aveF2CC"})
  /\ seen' = SeenMass(seen, cyl, materialProp, loc)
  /\ UNCHANGED <<rx, pc, call, ret, rebound, data>>

InitMesh ==
  /\ cyl = NoCyl1DMesh
  /\ out = NoOutcome
  /\ seen = NothingSeen
  /\ data = NoData
  /\ rx = NewReceiver("impedance1D", "yx", "real", <<"A">>)
  /\ pc = [t \in Callers |-> "ready"]
  /\ call = [t \in Callers |-> NoCall]
  /\ ret = [t \in Callers |-> NoRet]
  /\ rebound = FALSE

\* A mesh is constructed and one operation made on it.
NextMesh ==
  \/ \E c \in ConstructorCalls : Construct(c.h, c.z0)
  \/ \E name \in PropertyNames : out.op = "__init__" /\ Get(name)
  \/ \E loc \in Locs :
       /\ out.op = "__init__" /\ cyl # NoCyl1DMesh
       /\ \E materialProp \in MaterialProps(cyl) : GetMass(materialProp, loc)

SpecMesh == InitMesh /\ [][NextMesh]_vars

\* The meshes of the sequences of operations, and the arguments of their
\* getMass calls.
SeqConstructorCalls ==
  {[h |-> <<ndarray(<<One, Two>>), ndarray(<<Two>>)>>, z0 |-> PyNone],
   [h |-> <<ndarray(<<One, Two>>), ndarray(<<One, Two>>)>>,
    z0 |-> NumpyScalar(One)]}
SeqMaterialProps(self) == {PyNone, ndarray(PropertyArray(nCz(self)))}
SeqLocs == {"e", "f"}

\* A mesh is constructed and up to MaxOps operations are made on it, in any
\* order.
NextMeshSeq ==
  \/ \E c \in SeqConstructorCalls : Construct(c.h, c.z0)
  \/ \E name \in PropertyNames : seen.ops < MaxOps /\ Get(name)
  \/ \E loc \in SeqLocs :
       /\ seen.ops < MaxOps /\ cyl # NoCyl1DMesh
       /\ \E materialProp \in SeqMaterialProps(cyl) :
            GetMass(materialProp, loc)

SpecMeshSeq == InitMesh /\ [][NextMeshSeq]_vars

\* -------------------------------------------- operations on the data object

\* data = Data(dobs=dobs, survey=survey), or SyntheticData(...)
NewData(cls, dobs, survey) ==
  /\ data = NoData
  /\ data' = Data__init__(cls, dobs, survey)
  /\ out' = Outcome("__init__", <<cls, dobs, survey>>, Ok(<<>>))
  /\ UNCHANGED <<rx, pc, call, ret, rebound, cyl, seen>>

\* data.survey = survey, on an object constructed without one
AttachSurvey(survey) ==
  /\ data # NoData /\ IsNone(data.survey)
  /\ data' = SetSurvey(data, survey)
  /\ out' = Outcome("survey=", <<survey>>, Ok(<<>>))
  /\ UNCHANGED <<rx, pc, call, ret, rebound, cyl, seen>>

\* data[key] = value
SetItem(key, value) ==
  /\ data # NoData
  /\ LET r == __setitem__(data, key, value)
     IN data' = r.self /\ out' = Outcome("__setitem__", <<key, value>>, r)
  /\ UNCHANGED <<rx, pc, call, ret, rebound, cyl, seen>>

\* data[key]
GetItem(key) ==
  /\ data # NoData
  /\ LET r == __getitem__(data, key)
     IN data' = r.self /\ out' = Outcome("__getitem__", <<key>>, r)
  /\ UNCHANGED <<rx, pc, call, ret, rebound, cyl, seen>>

\* data.<name> = value for an uncertainty
SetAttr(name, value) ==
  /\ data # NoData
  /\ LET r == SetUncertainty(data, name, value)
     IN data' = r.self /\ out' = Outcome(name \o "=", <<value>>, r)
  /\ UNCHANGED <<rx, pc, call, ret, rebound, cyl, seen>>

\* data.std, data.eps
ReadAlias(alias) ==
  /\ data # NoData
  /\ LET r == GetAlias(data, alias)
     IN data' = r.self /\ out' = Outcome(alias, <<>>, r)
  /\ UNCHANGED <<rx, pc, call, ret, rebound, cyl, seen>>

\* data.std = value, data.eps = value
WriteAlias(alias, value) ==
  /\ data # NoData
  /\ LET r == SetAlias(data, alias, value)
     IN data' = r.self /\ out' = Outcome(alias \o "=", <<value>>, r)
  /\ UNCHANGED <<rx, pc, call, ret, rebound, cyl, seen>>

InitData ==
  /\ data = NoData
  /\ cyl = NoCyl1DMesh
  /\ out = NoOutcome
  /\ seen = NothingSeen
  /\ rx = NewReceiver("impedance1D", "yx", "real", <<"A">>)
  /\ pc = [t \in Callers |-> "ready"]
  /\ call = [t \in Callers |-> NoCall]
  /\ ret = [t \in Callers |-> NoRet]
  /\ rebound = FALSE

\* A data object is constructed, with a survey or without one and then given
\* one, and used in any order.
NextData ==
  \/ \E cls \in {"Data", "SyntheticData"}, survey \in Surveys \cup {PyNone} :
       \E dobs \in {PyNone} \cup
                   (IF IsNone(survey) THEN {}
                    ELSE {ndarray(ones(Survey_nD(survey.srcList)))}) :
         NewData(cls, dobs, survey)
  \/ \E survey \in Surveys : AttachSurvey(survey)
  \/ \E key \in Keys, value \in Values : SetItem(key, value)
  \/ \E key \in Keys : GetItem(key)
  \/ \E value \in Uncertainties : SetAttr("standard_deviation", value)
  \/ \E alias \in {"std", "eps"} : ReadAlias(alias)
  \/ \E alias \in {"std", "eps"}, value \in Uncertainties :
       WriteAlias(alias, value)

SpecData == InitData /\ [][NextData]_vars

\* ------------------------------------------------------- notions of the claims

AllFinite(x) == \A k \in 1..Len(x) : IsFinite(x[k])
SomeNonZero(x) == \E k \in 1..Len(x) : x[k] # Zero

\* Caller t's call of op has returned a value.
Returned(t, op) ==
  pc[t] = "done" /\ call[t].op = op /\ ret[t].raised = None

\* The arguments of a call that are bound.
ArgsOf(c) == [src |-> c.src, mesh |-> c.mesh, f |-> c.f]

\* mkvc of an (nE, 2) array: the stacked two-polarization vector.
Stacked(M) ==
  AsSeq([k \in 1..(2 * Len(M)) |->
           M[((k - 1) % Len(M)) + 1][((k - 1) \div Len(M)) + 1]])

\* An adjoint result as a vector of size nU.
AdjointAsVector(self, value) ==
  IF self.variant = "impedance1D" THEN value ELSE Stacked(value)

\* self._Hd_uV and self._aHd_uV, as the receiver's class resolves them.
Hd_uV_of(self, v) ==
  IF self.variant = "horizontalmagvar3D" THEN _Hd_uV_hmv(self, v)
  ELSE _Hd_uV(self, v)
aHd_uV_of(self, x) ==
  IF self.variant = "horizontalmagvar3D" THEN _aHd_uV_hmv(self, x)
  ELSE _aHd_uV(self, x)

\* The numerator and the denominator of the ratio a receiver measures.
Numerator(self) ==
  CASE self.variant = "impedance1D" -> VNeg(_ex(self))
    [] self.variant = "impedance3D" -> Zij_eval(self)
    [] self.variant = "tipper3D" -> Tij_eval(self)
    [] self.variant = "horizontalmagvar3D" -> Mij_eval(self)
Denominator(self) ==
  IF self.variant = "impedance1D" THEN _hx(self)
  ELSE VSub(VMul(_hx_px(self), _hy_py(self)), VMul(_hx_py(self), _hy_px(self)))

\* The receiver with its field solution moved by t*v, and the central
\* difference over t = 1 and t = -1, which is the derivative along v of a
\* quantity at most quadratic in the fields.
Perturbed(self, t, v) ==
  [self EXCEPT !._f = NewFields(VAdd(self._f.u, VScale(Cx(t, 0), v)))]
Slope(Fplus, Fminus) == VDivS(VSub(Fplus, Fminus), Cx(2, 0))

\* A field object all of whose fields vanish on every edge and face.
VanishingFields ==
  LET z == AsSeq([j \in 1..NumEdges |-> Zero])
      zs == [e_px |-> z, e_py |-> z, b_px |-> z, b_py |-> z, e_1d |-> z, b_1d |-> z]
  IN [u |-> AsSeq([j \in 1..(2 * NumEdges) |-> Zero]), s1 |-> zs, s2 |-> zs]

\* The same receiver with another orientation or component.
WithOrientation(self, o) == [self EXCEPT !.orientation = o]
WithComponent(self, c) == [self EXCEPT !.component = c]

\* The receiver as constructed, before any call, and what eval returns on it.
Fresh(self) ==
  NewReceiver(self.variant, self.orientation, self.component, self.locs)
FreshValue(self, c) ==
  eval(Bind(Fresh(self), c.src, c.mesh, c.f), c.return_complex)

\* Every interpolation matrix the receiver has cached was built from mesh.
CacheFields ==
  {"_Pex", "_Pey", "_Pbx", "_Pby", "_Pbz", "_Pbx_num", "_Pby_num"}
AllProps(self) ==
  IF self.variant = "impedance1D" THEN {"Pex_1D", "Pbx_1D"}
  ELSE {"Pex", "Pey", "Pbx", "Pby", "Pbz", "Pbx_num", "Pby_num"}
CachedFrom(self, mesh) ==
  LET built == Touch([Fresh(self) EXCEPT !._mesh = mesh], AllProps(self))
  IN \A c \in CacheFields : self[c] = NoneMat \/ self[c] = built[c]

Other(t) == 3 - t

\* ---------------------------------------------------------------- the claims

(***************************************************************************)
(* C1.  Adjoint identity.  After evalDeriv(src, mesh, f, u, adjoint=True)  *)
(* has returned on a receiver with component 'real', for every model-space *)
(* vector v, dot(u, evalDeriv(src, mesh, f, v, adjoint=False)) equals      *)
(* dot(v, the adjoint result stacked), whenever both are finite.  The      *)
(* fields are complex and the forward result is a real part, so the two    *)
(* sides are compared in their real parts, which the equality of the       *)
(* claim implies.                                                          *)
(***************************************************************************)
AdjointIdentity ==
  (Returned(1, "evalDeriv") /\ call[1].adjoint /\ rx.component = "real") =>
    \A v \in ModelVecs :
      LET Jv == evalDeriv(rx, v, FALSE).value
          JTu == AdjointAsVector(rx, ret[1].value)
      IN (AllFinite(Jv) /\ AllFinite(JTu)) =>
           RealPart(Dot(call[1].v, Jv)) = RealPart(Dot(v, JTu))

\* The identity of C1 on the 1D receiver alone, where _aHd_uV has no part.
AdjointIdentity1D ==
  rx.variant = "impedance1D" => AdjointIdentity

(***************************************************************************)
(* C2.  _aHd_uV mirrors _Hd_uV: on a bound 3D receiver, for every          *)
(* data-space x and model-space v, dot(x, _Hd_uV(v)) equals                *)
(* dot(_aHd_uV(x), v), in the base class and in the horizontal-magnetic    *)
(* override.                                                               *)
(***************************************************************************)
AdjointDeterminantMirror ==
  (pc[1] = "done" /\ rx.variant # "impedance1D") =>
    \A x \in DataVecs, v \in ModelVecs :
      Dot(x, Hd_uV_of(rx, v)) = Dot(aHd_uV_of(rx, x), v)

(***************************************************************************)
(* C3.  Forward-mode evalDeriv is the exact linearisation of eval: what    *)
(* evalDeriv(src, mesh, f, v) returns is the component of                  *)
(* Hd*(N' - ratio*D'), where N' and D' are the derivatives along v of the  *)
(* numerator and of the determinant that eval uses (of -ex and hx for the  *)
(* 1D receiver) and ratio = Hd*numerator.                                  *)
(***************************************************************************)
ForwardDerivIsLinearisation ==
  (Returned(1, "evalDeriv") /\ ~call[1].adjoint) =>
    LET v == call[1].v
        dN == Slope(Numerator(Perturbed(rx, 1, v)),
                    Numerator(Perturbed(rx, -1, v)))
        dD == Slope(Denominator(Perturbed(rx, 1, v)),
                    Denominator(Perturbed(rx, -1, v)))
        Hd == VInv(Denominator(rx))
        ratio == VMul(Hd, Numerator(rx))
    IN ret[1].value = getattr(VMul(Hd, VSub(dN, VMul(ratio, dD))), rx.component)

\* A forward derivative of a 3D receiver that is finite and not zero.
ForwardDerivReturned ==
  /\ Returned(1, "evalDeriv") /\ ~call[1].adjoint
  /\ rx.variant # "impedance1D"
  /\ AllFinite(ret[1].value) /\ SomeNonZero(ret[1].value)

(***************************************************************************)
(* C4.  eval inverts the two-polarization system: when the determinant is  *)
(* not zero, with Zij (Tij) the complex values eval yields for the         *)
(* orientations ij, ex_p = Zxx*hx_p + Zxy*hy_p, ey_p = Zyx*hx_p + Zyy*hy_p *)
(* and hz_p = Tzx*hx_p + Tzy*hy_p for both polarizations p.                *)
(***************************************************************************)
TwoPolarizationSystemInverted ==
  (Returned(1, "eval") /\ call[1].return_complex /\ AllFinite(_Hd(rx))) =>
    LET T(o) == eval(WithOrientation(rx, o), TRUE).value
        Combine(a, hx, b, hy) == VAdd(VMul(a, hx), VMul(b, hy))
    IN /\ ret[1].value = T(rx.orientation)
       /\ rx.variant = "impedance3D" =>
            /\ _ex_px(rx) = Combine(T("xx"), _hx_px(rx), T("xy"), _hy_px(rx))
            /\ _ex_py(rx) = Combine(T("xx"), _hx_py(rx), T("xy"), _hy_py(rx))
            /\ _ey_px(rx) = Combine(T("yx"), _hx_px(rx), T("yy"), _hy_px(rx))
            /\ _ey_py(rx) = Combine(T("yx"), _hx_py(rx), T("yy"), _hy_py(rx))
       /\ rx.variant = "tipper3D" =>
            /\ _hz_px(rx) = Combine(T("zx"), _hx_px(rx), T("zy"), _hy_px(rx))
            /\ _hz_py(rx) = Combine(T("zx"), _hx_py(rx), T("zy"), _hy_py(rx))

\* A complex impedance returned with a non-zero determinant.
ImpedanceReturned ==
  /\ Returned(1, "eval") /\ call[1].return_complex
  /\ rx.variant = "impedance3D"
  /\ AllFinite(_Hd(rx)) /\ SomeNonZero(ret[1].value)

(***************************************************************************)
(* C5.  The horizontal-magnetic receiver's complex eval value is Hd*Mij    *)
(* minus the Schmucker correction, 1 for 'xx' and 'yy' and 0 for 'xy' and  *)
(* 'yx', and forward evalDeriv adds the same correction back, so that the  *)
(* ratio of its quotient rule is the uncorrected Hd*Mij.                   *)
(***************************************************************************)
SchmuckerCorrection ==
  rx.variant = "horizontalmagvar3D" =>
    LET corr == IF rx.orientation \in {"xx", "yy"} THEN One ELSE Zero
        Hd == VInv(Denominator(rx))
        ratio == VMul(Hd, Mij_eval(rx))
    IN /\ (Returned(1, "eval") /\ call[1].return_complex) =>
            ret[1].value = VSubS(ratio, corr)
       /\ (Returned(1, "evalDeriv") /\ ~call[1].adjoint) =>
            ret[1].value =
              getattr(VMul(Hd, VSub(MijN_uV_forward(rx, call[1].v),
                                    VMul(ratio, _Hd_uV_hmv(rx, call[1].v)))),
                      rx.component)

\* A forward derivative of a diagonal horizontal-magnetic receiver.
SchmuckerDerivReturned ==
  /\ Returned(1, "evalDeriv") /\ ~call[1].adjoint
  /\ rx.variant = "horizontalmagvar3D" /\ rx.orientation = "xx"
  /\ AllFinite(ret[1].value) /\ SomeNonZero(ret[1].value)

(***************************************************************************)
(* C6.  Component extraction: eval(src, mesh, f) returns the real part of  *)
(* eval(src, mesh, f, return_complex=True) when the component is 'real'    *)
(* and its imaginary part when the component is 'imag'; it raises when the *)
(* complex evaluation raises.                                              *)
(***************************************************************************)
ComponentExtraction ==
  (pc[1] = "done" /\ call[1].op = "eval" /\ ~call[1].return_complex) =>
    LET full == eval(rx, TRUE)
    IN /\ ret[1].raised = full.raised
       /\ ret[1].raised = None =>
            ret[1].value = IF rx.component = "real" THEN VReal(full.value)
                           ELSE VImag(full.value)

\* An imaginary part returned that differs from the real part.
ImagComponentReturned ==
  /\ Returned(1, "eval") /\ ~call[1].return_complex
  /\ rx.component = "imag"
  /\ AllFinite(ret[1].value)
  /\ ret[1].value # VReal(eval(rx, TRUE).value)

(***************************************************************************)
(* C7.  eval is a pure function of src, mesh and f: what eval returns is   *)
(* what it returns on the receiver as constructed, whatever calls came     *)
(* before, calls that passed another mesh included.                        *)
(***************************************************************************)
EvalIsPure ==
  (pc[1] = "done" /\ call[1].op = "eval") => ret[1] = FreshValue(rx, call[1])

(***************************************************************************)
(* C7, amended.  eval returns what it returns on the receiver as           *)
(* constructed, whatever calls came before, provided no interpolation      *)
(* matrix the receiver has cached was built from another mesh than the one *)
(* passed.                                                                 *)
(***************************************************************************)
EvalIsPureOnOneMesh ==
  (pc[1] = "done" /\ call[1].op = "eval" /\ CachedFrom(rx, call[1].mesh)) =>
    ret[1] = FreshValue(rx, call[1])

\* An eval that returned after a call with another source and field object,
\* with the matrices of its own mesh in the cache.
EvalAfterOtherSource ==
  /\ Returned(1, "eval") /\ AllFinite(ret[1].value)
  /\ rebound
  /\ CachedFrom(rx, call[1].mesh)

(***************************************************************************)
(* C8.  Every call rebinds _src, _mesh and _f to its own arguments before  *)
(* anything is read: inside a call and after it has returned the bindings  *)
(* are that call's arguments, and what the call returned is what its body  *)
(* computes from its own source, mesh and field object.                    *)
(***************************************************************************)
RebindBeforeRead ==
  pc[1] # "ready" =>
    /\ Bindings(rx) = ArgsOf(call[1])
    /\ pc[1] = "done" =>
         ret[1] = Body(Bind(rx, call[1].src, call[1].mesh, call[1].f), call[1])

\* A call that returned after a call with another source, another field
\* object and another mesh.
ReturnedAfterOtherBindings ==
  /\ pc[1] = "done" /\ ret[1].raised = None
  /\ rebound
  /\ ~CachedFrom(rx, call[1].mesh)
  /\ Bindings(rx) = ArgsOf(call[1])

(***************************************************************************)
(* C9.  Receivers are not safe for concurrent use: when a caller's eval    *)
(* reads the fields while the other caller's eval is between its rebinding *)
(* and its reads, and the other call was the last to rebind, the caller's  *)
(* result is computed from the other call's source, mesh and field object. *)
(***************************************************************************)
InterleavedEvalReadsOtherBindings ==
  [][\A t \in Callers :
       (/\ pc[t] = "bound" /\ pc'[t] = "done"
        /\ pc[Other(t)] = "bound"
        /\ Bindings(rx) = ArgsOf(call[Other(t)]))
       => ret'[t] = eval(Bind(rx, call[Other(t)].src, call[Other(t)].mesh,
                              call[Other(t)].f), call[t].return_complex)]_vars

\* A call has returned the value of the other call's source and field
\* object, which is not the value of its own.
RaceObserved ==
  \E t \in Callers :
    /\ Returned(t, "eval") /\ AllFinite(ret[t].value)
    /\ call[Other(t)].op = "eval"
    /\ call[t].src # call[Other(t)].src /\ call[t].f # call[Other(t)].f
    /\ call[t].mesh = call[Other(t)].mesh
    /\ ret[t] = FreshValue(rx, call[Other(t)])
    /\ ret[t] # FreshValue(rx, call[t])

(***************************************************************************)
(* C10.  In adjoint mode the result of evalDeriv with component 'imag' is  *)
(* the imaginary unit times the result with component 'real' for the same  *)
(* src, mesh, f and v; it raises when that one raises.                     *)
(***************************************************************************)
AdjointImagIsIUnitTimesReal ==
  (pc[1] = "done" /\ call[1].op = "evalDeriv" /\ call[1].adjoint
     /\ rx.component = "imag") =>
    LET real == evalDeriv(WithComponent(rx, "real"), call[1].v, TRUE)
    IN /\ ret[1].raised = real.raised
       /\ ret[1].raised = None =>
            ret[1].value = IF rx.variant = "impedance1D"
                           THEN VScale(ImagUnit, real.value)
                           ELSE MScale(ImagUnit, real.value)

\* An adjoint derivative of a 3D receiver with component 'imag', finite and
\* not zero.
AdjointImagReturned ==
  /\ Returned(1, "evalDeriv") /\ call[1].adjoint
  /\ rx.component = "imag" /\ rx.variant # "impedance1D"
  /\ \A j \in 1..Len(ret[1].value) : AllFinite(ret[1].value[j])
  /\ \E j \in 1..Len(ret[1].value) : SomeNonZero(ret[1].value[j])

(***************************************************************************)
(* C11.  A zero determinant of the magnetic-field matrix (a zero magnetic  *)
(* field for the 1D receiver) at a location is not checked for: a call on  *)
(* a receiver of a supported orientation raises no error on it, and the    *)
(* entry of the result at that location is a non-finite value, in eval and *)
(* in the forward derivative; the adjoint derivative, which mixes the      *)
(* locations, raises no error either and is not finite.                    *)
(***************************************************************************)
ZeroDeterminantNotChecked ==
  (pc[1] = "done" /\ Supported(rx)) =>
    /\ \A k \in 1..nLocs(rx.locs) :
         Denominator(rx)[k] = Zero =>
           /\ ret[1].raised = None
           /\ IF call[1].op = "evalDeriv" /\ call[1].adjoint
              THEN ~AllFinite(AdjointAsVector(rx, ret[1].value))
              ELSE ~IsFinite(ret[1].value[k])
    /\ rx.variant = "impedance1D" =>
         LET self == [rx EXCEPT !._f = VanishingFields]
             r == Body(self, call[1])
         IN /\ Denominator(self) = AsSeq([k \in 1..nLocs(rx.locs) |-> Zero])
            /\ r.raised = None
            /\ call[1].op = "eval" => \A k \in 1..Len(r.value) : ~IsFinite(r.value[k])
            /\ call[1].op = "evalDeriv" => ~AllFinite(r.value)

\* An eval of a 3D impedance receiver has returned with a zero determinant at
\* one location and a non-zero one at the other, whose entry is finite.
ZeroDeterminantReturned ==
  /\ Returned(1, "eval") /\ rx.variant = "impedance3D"
  /\ \E k, l \in 1..nLocs(rx.locs) :
       /\ Denominator(rx)[k] = Zero
       /\ Denominator(rx)[l] # Zero /\ IsFinite(Denominator(rx)[l])
       /\ IsFinite(ret[1].value[l])

\* ---------------------------------------------- notions of the mesh claims

\* A mesh has been constructed; its widths as constructed.
Constructed == cyl # NoCyl1DMesh
WidthsR == cyl._h[1]
WidthsZ == cyl._h[2]
PositiveWidths ==
  /\ \A i \in 1..Len(WidthsR) : IsPositive(WidthsR[i])
  /\ \A j \in 1..Len(WidthsZ) : IsPositive(WidthsZ[j])

\* The outer radius of radial cell i: the sum of the first i radial widths;
\* Radius(0) = 0.
Radius(i) == SumTo(WidthsR, i)

\* x < y for finite reals.
Less(x, y) == x[1] * y[3] < y[1] * x[3]
MaxOf(x) == x[CHOOSE i \in 1..Len(x) : \A k \in 1..Len(x) : ~Less(x[i], x[k])]

\* The mesh of the example: hr = [1, 1, 1], hz = [2, 2].
ExampleMesh == cyl._h = <<(<<One, One, One>>), (<<Two, Two>>)>>

(***************************************************************************)
(* C12.  For every mesh built from width arrays hr and hz: nCr = len(hr),  *)
(* nCz = len(hz), nC = nCr*nCz, nNr = nCr, nNz = nCz+1, nN = nNr*nNz,      *)
(* nFr = nNr*nCz, nFz = nNz*nCr, nF = nFr+nFz, nE = nN; vol has nC         *)
(* entries, area has nF entries, the r-faces first and then the z-faces,   *)
(* edge has nE entries.  hr = [1,1,1], hz = [2,2] gives nCr = 3, nCz = 2,  *)
(* nC = 6, nNr = 3, nNz = 3, nN = 9.                                       *)
(***************************************************************************)
CountsAndSizes ==
  Constructed =>
    LET lr == Len(WidthsR)
        lz == Len(WidthsZ)
        count == [nCr |-> lr, nCz |-> lz, nC |-> lr * lz, nNr |-> lr,
                  nNz |-> lz + 1, nN |-> lr * (lz + 1), nFr |-> lr * lz,
                  nFz |-> (lz + 1) * lr, nF |-> lr * lz + (lz + 1) * lr,
                  nE |-> lr * (lz + 1)]
    IN /\ out.op = "__init__" =>
            /\ WidthsR = out.args[1][1].data
            /\ WidthsZ = out.args[1][2].data
       /\ \A name \in DOMAIN count :
            /\ Property(cyl, name) = count[name]
            /\ out.op = name => out.value = count[name]
       /\ out.op = "vol" => Len(out.value) = count.nC
       /\ out.op = "edge" => Len(out.value) = count.nE
       /\ out.op = "area" =>
            /\ Len(out.value) = count.nF
            /\ \A j \in 1..lz, i \in 1..lr :
                 out.value[(j - 1) * lr + i] =
                   TimesPi(CMul(Two, CMul(Radius(i), WidthsZ[j])))
            /\ \A k \in 1..(lz + 1), i \in 1..lr :
                 out.value[count.nFr + (k - 1) * lr + i] =
                   TimesPi(CSub(CMul(Radius(i), Radius(i)),
                                CMul(Radius(i - 1), Radius(i - 1))))
       /\ ExampleMesh =>
            /\ nCr(cyl) = 3 /\ nCz(cyl) = 2 /\ nC(cyl) = 6
            /\ nNr(cyl) = 3 /\ nNz(cyl) = 3 /\ nN(cyl) = 9

\* nN has been read on the mesh of the example and is 9.
NodesOfExampleCounted ==
  Constructed /\ ExampleMesh /\ out.op = "nN" /\ out.value = 9

(***************************************************************************)
(* C13.  For every mesh with positive widths the cell volumes sum to the   *)
(* volume of the whole cylinder, pi * max(vectorNr)^2 * sum(hz); for       *)
(* hr = [1,1,1], hz = [2,2] the sum is 36*pi.                              *)
(***************************************************************************)
VolumesSumToCylinder ==
  (Constructed /\ PositiveWidths /\ out.op = "vol") =>
    LET R == MaxOf(vectorNr(cyl))
        cylinder == TimesPi(CMul(CMul(R, R), SumTo(WidthsZ, Len(WidthsZ))))
    IN /\ SumTo(out.value, Len(out.value)) = cylinder
       /\ ExampleMesh => SumTo(out.value, Len(out.value)) = TimesPi(Cx(36, 0))

\* vol has been read on the mesh of the example and sums to 36*pi.
VolumeOfExampleRead ==
  /\ Constructed /\ ExampleMesh /\ out.op = "vol"
  /\ SumTo(out.value, Len(out.value)) = TimesPi(Cx(36, 0))

(***************************************************************************)
(* C14.  For every mesh whose radial and vertical widths are all strictly  *)
(* positive, every entry of area, in the block of the r-faces and in the   *)
(* block of the z-faces, and every entry of vol is strictly positive.      *)
(***************************************************************************)
AreasAndVolumesPositive ==
  (Constructed /\ PositiveWidths /\ out.op \in {"area", "vol"}) =>
    /\ Len(out.value) = IF out.op = "area" THEN nF(cyl) ELSE nC(cyl)
    /\ \A n \in 1..Len(out.value) : IsPositive(out.value[n])

\* area has been read on a mesh of positive widths with more than one cell in
\* each direction: both blocks hold more than one ring.
AreaOfPositiveMeshRead ==
  /\ Constructed /\ PositiveWidths /\ out.op = "area"
  /\ Len(WidthsR) > 1 /\ Len(WidthsZ) > 1
  /\ Len(out.value) = nF(cyl)

\* The sum of the entries of a vector, and a vector of n entries c.
Total(x) == SumTo(x, Len(x))

\* The index of node (a, k) among the nodes (edges) and of cell (i, j) among
\* the cells, the radial index running fastest, all from 1.
NodeIndex(a, k) == (k - 1) * Len(WidthsR) + a
CellIndex(i, j) == (j - 1) * Len(WidthsR) + i

\* The constants averaged in the partition-of-unity claims.
FieldConstants == {One, Two, CNeg(Half)}

(***************************************************************************)
(* C15.  aveF2CC is a partition of unity: for every mesh it is an nC x nF  *)
(* matrix that takes the face field with the same constant c on every face *)
(* to c at every cell centre, that is, every row sums to 1.                *)
(***************************************************************************)
FaceAverageIsPartitionOfUnity ==
  (Constructed /\ out.op = "aveF2CC") =>
    LET Av == out.value
    IN /\ Len(Av) = nC(cyl)
       /\ \A n \in 1..Len(Av) : Len(Av[n]) = nF(cyl) /\ Total(Av[n]) = One
       /\ \A c \in FieldConstants :
            MatVec(Av, Full(nF(cyl), c)) = Full(nC(cyl), c)

\* What the code does instead: every row of aveF2CC sums to 2, one for the
\* r-faces of the cell and one for its z-faces.
FaceAverageRowsSumToTwo ==
  (Constructed /\ out.op = "aveF2CC") =>
    LET Av == out.value
    IN /\ Len(Av) = nC(cyl)
       /\ \A n \in 1..Len(Av) : Len(Av[n]) = nF(cyl) /\ Total(Av[n]) = Two

(***************************************************************************)
(* C16.  aveE2CC is a partition of unity: for every mesh it is an nC x nE  *)
(* matrix that takes the edge field with the same constant c on every edge *)
(* to c at every cell centre: every row sums to 1.  The row of cell (i, j) *)
(* weights the nodes of levels j and j+1 by 0.5 each and the radial nodes  *)
(* i-1 and i by 0.5 each, but for the innermost cell (i = 1) the radial    *)
(* weight is the single 1 on the innermost node.                           *)
(***************************************************************************)
EdgeAverageIsPartitionOfUnity ==
  (Constructed /\ out.op = "aveE2CC") =>
    LET Av == out.value
        Wz(j, k) == IF k \in {j, j + 1} THEN Half ELSE Zero
        Wr(i, a) == IF i = 1 THEN (IF a = 1 THEN One ELSE Zero)
                    ELSE IF a \in {i - 1, i} THEN Half ELSE Zero
    IN /\ Len(Av) = nC(cyl)
       /\ \A n \in 1..Len(Av) : Len(Av[n]) = Cyl1D_nE(cyl) /\ Total(Av[n]) = One
       /\ \A c \in FieldConstants :
            MatVec(Av, Full(Cyl1D_nE(cyl), c)) = Full(nC(cyl), c)
       /\ \A i \in 1..Len(WidthsR), j \in 1..Len(WidthsZ) :
            \A a \in 1..Len(WidthsR), k \in 1..(Len(WidthsZ) + 1) :
              Av[CellIndex(i, j)][NodeIndex(a, k)] = CMul(Wz(j, k), Wr(i, a))

\* aveE2CC has been read on a mesh with more than one radial cell; the row of
\* an innermost cell has two entries 0.5 and the row next to it four 0.25.
EdgeAverageRead ==
  /\ Constructed /\ out.op = "aveE2CC" /\ Len(WidthsR) > 1
  /\ out.value[CellIndex(1, 1)][NodeIndex(1, 1)] = Half
  /\ out.value[CellIndex(2, 1)][NodeIndex(1, 1)] = CMul(Half, Half)

\* The last operation was getMass with loc 'e' or 'f'; its arguments.
MassCalled == Constructed /\ out.op = "getMass" /\ out.args[2] \in {"e", "f"}
MassProperty == out.args[1]
MassLoc == out.args[2]
MassOutcome(r) == Outcome("getMass", out.args, r)

\* The scalars c of the linearity claim.
Scalars == {Zero, Two, CNeg(One), Half}

(***************************************************************************)
(* C17.  getMass is linear in the material property and 1 is its default:  *)
(* for every per-cell array m, scalar c and loc in {'e','f'},              *)
(* getMass(c*m, loc) = c*getMass(m, loc), and getMass(loc=loc) without a   *)
(* materialProp equals getMass(materialProp=1.0, loc=loc).                 *)
(***************************************************************************)
MassIsLinear ==
  MassCalled =>
    /\ (MassProperty.type = "ndarray" /\ size(MassProperty) = nC(cyl)) =>
         /\ out.raised = None
         /\ \A c \in Scalars :
              getMass(cyl, ndarray(VScale(c, MassProperty.data)), MassLoc)
                = Ok(sdiag(VScale(c, out.value.diag)))
    /\ MassProperty = PyNone =>
         /\ out.raised = None
         /\ out = MassOutcome(getMass(cyl, PyFloat(One), MassLoc))

\* getMass has returned the matrix of a per-cell array on a mesh of more than
\* one cell; the matrix is not zero.
MassOfCellArrayReturned ==
  /\ MassCalled /\ out.raised = None
  /\ MassProperty.type = "ndarray" /\ size(MassProperty) = nC(cyl)
  /\ nCr(cyl) > 1 /\ nCz(cyl) > 1
  /\ SomeNonZero(out.value.diag)

(***************************************************************************)
(* C18.  getMass accepts a scalar, a per-cell array and a per-layer array  *)
(* and treats each as its per-cell expansion: a numeric scalar s, of any   *)
(* numeric type, gives the matrix of the per-cell array with s in every    *)
(* cell, and an array m of length nCz gives the matrix of the per-cell     *)
(* array that holds m[j] in each of the nCr cells of layer j.              *)
(***************************************************************************)
MassOfExpansion ==
  MassCalled =>
    /\ MassProperty.type \in {"float", "int"} =>
         out = MassOutcome(getMass(cyl,
                 ndarray(Full(nC(cyl), MassProperty.data[1])), MassLoc))
    /\ (MassProperty.type = "ndarray" /\ size(MassProperty) = nCz(cyl)) =>
         out = MassOutcome(getMass(cyl,
                 ndarray(AsSeq([n \in 1..nC(cyl) |->
                   MassProperty.data[((n - 1) \div nCr(cyl)) + 1]])), MassLoc))
    /\ (MassProperty.type \in {"float", "int"}
          \/ (MassProperty.type = "ndarray"
                /\ size(MassProperty) \in {nC(cyl), nCz(cyl)})) =>
         out.raised = None

\* What the code does: the expansion holds for a Python float and for a
\* per-layer array, and a Python int is refused with an AttributeError.
MassOfFloatAndLayerExpansion ==
  MassCalled =>
    /\ MassProperty.type = "float" =>
         out = MassOutcome(getMass(cyl,
                 ndarray(Full(nC(cyl), MassProperty.data[1])), MassLoc))
    /\ (MassProperty.type = "ndarray" /\ size(MassProperty) = nCz(cyl)) =>
         out = MassOutcome(getMass(cyl,
                 ndarray(AsSeq([n \in 1..nC(cyl) |->
                   MassProperty.data[((n - 1) \div nCr(cyl)) + 1]])), MassLoc))
    /\ MassProperty.type = "int" => out.raised = "AttributeError"

ConstructionValidated ==
  out.op = "__init__" =>
    LET h == out.args[1]
        z0 == out.args[2]
        twoArrays == Len(h) = 2
                       /\ \A i \in 1..Len(h) : h[i].type = "ndarray" /\ h[i].ndim = 1
        oneScalar == z0 = PyNone \/ Len(z0.data) = 1
    IN IF twoArrays /\ oneScalar
       THEN /\ out.raised = None /\ Constructed
            /\ cyl._h = <<h[1].data, h[2].data>>
            /\ cyl._z0.data = IF z0 = PyNone THEN <<Zero>> ELSE z0.data
       ELSE out.raised \in {"AssertionError", "ValueError"} /\ ~Constructed

\* What the code does: a Python scalar has no size attribute and is refused
\* with an AttributeError; every other input is treated as claimed.
ConstructionValidatedButPlainScalar ==
  out.op = "__init__" =>
    LET h == out.args[1]
        z0 == out.args[2]
        twoArrays == Len(h) = 2
                       /\ \A i \in 1..Len(h) : h[i].type = "ndarray" /\ h[i].ndim = 1
        oneScalar == z0 = PyNone \/ Len(z0.data) = 1
    IN IF Len(h) = 2 /\ z0.type = "float"
       THEN out.raised = "AttributeError" /\ ~Constructed
       ELSE IF twoArrays /\ oneScalar
       THEN /\ out.raised = None /\ Constructed
            /\ cyl._h = <<h[1].data, h[2].data>>
            /\ cyl._z0.data = IF z0 = PyNone THEN <<Zero>> ELSE z0.data
       ELSE out.raised = "AssertionError" /\ ~Constructed

\* The expression of a getter has run once at most.
ComputedOnceAtMost(names) ==
  \A name \in names : seen.tally[name] # "repeatedly"

\* The property just read has the value of its first read.
FirstValueReturned ==
  out.op \in PropertyNames => seen.first[out.op] = <<out.value>>

\* A step empties or changes no filled cache.
NoCacheReset ==
  \A name \in MemoizedNames :
    Memo(cyl, name) # NoneMat => Memo(cyl', name) = Memo(cyl, name)

\* A cache is filled exactly when the expression of its getter has run.
FilledWhenComputed ==
  \A name \in MemoizedNames :
    (Memo(cyl, name) # NoneMat) <=> (seen.tally[name] = "once")

\* Reading a count or a 1-D vector again runs its expression again.
PlainRecomputed ==
  \A name \in PropertyNames \ MemoizedNames :
    (seen'.ops = seen.ops + 1 /\ out'.op = name
     /\ seen.tally[name] # "never") => seen'.tally[name] = "repeatedly"

HasSurvey == data # NoData /\ ~IsNone(data.survey)

\* The (src, rx) pairs of a list of sources, in srcList order and within each
\* source in rxList order.
RECURSIVE PairsInOrder(_)
PairsInOrder(srcs) ==
  IF srcs = <<>> THEN <<>>
  ELSE AsSeq([i \in 1..Len(rxList(Head(srcs))) |->
                <<Head(srcs), rxList(Head(srcs))[i]>>])
       \o PairsInOrder(Tail(srcs))
SurveyPairs == PairsInOrder(data.survey.srcList)

\* The number of data of the first n pairs.
RECURSIVE DataOfFirst(_, _)
DataOfFirst(pairs, n) ==
  IF n = 0 THEN 0 ELSE DataOfFirst(pairs, n - 1) + rx_nD(pairs[n][2])

\* The index range the data object holds for pair p of the survey.
RangeOfPair(p) ==
  DictGet(DictGet(data._data_dict, SurveyPairs[p][1]), SurveyPairs[p][2])

\* The entries of a sequence.
Entries(x) == {x[k] : k \in 1..Len(x)}

\* The index ranges are as C24 says.
IndexRangesPartition ==
  HasSurvey =>
    LET n == Len(SurveyPairs)
    IN /\ \A p \in 1..n :
            /\ Len(RangeOfPair(p)) = rx_nD(SurveyPairs[p][2])
            /\ \A k \in 1..Len(RangeOfPair(p)) - 1 :
                 RangeOfPair(p)[k + 1] = RangeOfPair(p)[k] + 1
            /\ RangeOfPair(p)[1] =
                 IF p = 1 THEN 0
                 ELSE RangeOfPair(p - 1)[Len(RangeOfPair(p - 1))] + 1
       /\ \A p, q \in 1..n :
            p # q => Entries(RangeOfPair(p)) \cap Entries(RangeOfPair(q)) = {}
       /\ UNION {Entries(RangeOfPair(p)) : p \in 1..n}
            = 0..(DataOfFirst(SurveyPairs, n) - 1)

\* A step on a data object with a survey leaves the index ranges as they
\* are.
IndexRangesKept == HasSurvey => data'._data_dict = data._data_dict

(***************************************************************************)
(* C24.  Once a survey is attached, the index ranges of the (src, rx)      *)
(* pairs, taken in srcList order and within each source in rxList order,   *)
(* are contiguous, pairwise disjoint, each of length rx.nD, and together   *)
(* cover exactly 0 .. (sum of all rx.nD) - 1; the range of a pair stays    *)
(* the same over any later sequence of set and get operations.             *)
(***************************************************************************)
IndexRangesStable == []IndexRangesPartition /\ [][IndexRangesKept]_vars

\* Data have been set and read on a survey whose sources are srcB, srcA.
ReadAfterSetOnSurvey ==
  /\ HasSurvey /\ data.survey.srcList[1] = SrcObject("srcB")
  /\ out.op = "__getitem__" /\ out.raised = None
  /\ \E k \in 1..Len(data.dobs.data) : ~isnan(data.dobs.data[k])
  /\ \E k \in 1..Len(data.dobs.data) : isnan(data.dobs.data[k])

\* key is a tuple (src, rx) of a source of the survey and one of its
\* receivers.
IsPair(key) ==
  /\ key.type = "tuple" /\ Len(key.items) = 2
  /\ InList(key.items[1], data.survey.srcList)
  /\ InList(key.items[2], rxList(key.items[1]))

\* The position of pair (src, rx) among the pairs of the survey.
PairIndex(key) ==
  CHOOSE p \in 1..Len(SurveyPairs) :
    SurveyPairs[p] = <<key.items[1], key.items[2]>>

\* The entries of the observed data that belong to pair p: nan while no
\* data are stored.
EntriesOfPair(d, p) ==
  IF IsNone(d.dobs) THEN Full(Len(RangeOfPair(p)), nan)
  ELSE Take(d.dobs.data, RangeOfPair(p))

\* The step is data[key] = value, and what it was called with.
IsSet == out'.op = "__setitem__"
SetKey == out'.args[1]
SetValue == out'.args[2]

\* An assignment of a value of a wrong size to a pair fails on the
\* assertion and leaves the observed data as they are.
WrongSizeRefusedStep ==
  (/\ HasSurvey /\ IsSet /\ IsPair(SetKey)
   /\ SetValue.type = "ndarray" /\ size(SetValue) # rx_nD(SetKey.items[2])) =>
    /\ out'.raised = "AssertionError"
    /\ data'.dobs = data.dobs

\* An assignment that succeeds has a value of rx.nD entries.
AcceptedHasSize ==
  (HasSurvey /\ out.op = "__setitem__" /\ out.raised = None) =>
    /\ IsPair(out.args[1])
    /\ size(out.args[2]) = rx_nD(out.args[1].items[2])

(***************************************************************************)
(* C22.  data[src, rx] = value is accepted only if value has rx.nD         *)
(* entries: with value.size # rx.nD the assignment fails, and the observed *)
(* data stored are unchanged by the failed assignment.                     *)
(***************************************************************************)
ValueSizeEnforced == []AcceptedHasSize /\ [][WrongSizeRefusedStep]_vars

\* A value of a wrong size has been refused on an object that holds data.
WrongSizeRefused ==
  /\ HasSurvey /\ out.op = "__setitem__" /\ out.raised = "AssertionError"
  /\ IsPair(out.args[1]) /\ out.args[2].type = "ndarray"
  /\ size(out.args[2]) # rx_nD(out.args[1].items[2])
  /\ ~IsNone(data.dobs)
  /\ \E k \in 1..Len(data.dobs.data) : ~isnan(data.dobs.data[k])

\* The keys C23 names: a tuple of another length than 2, a tuple whose
\* source is no source of the survey or whose receiver is no receiver of
\* its source, and a key that is no tuple and no source of the survey.
BadKey(key) ==
  IF key.type = "tuple"
  THEN \/ Len(key.items) # 2
       \/ ~InList(key.items[1], data.survey.srcList)
       \/ ~InList(key.items[2], rxList(key.items[1]))
  ELSE ~InList(key, data.survey.srcList)

\* A set or a get with such a key raises KeyError, and the data object is
\* as before.
BadKeyRefusedStep ==
  (/\ HasSurvey /\ out'.op \in {"__setitem__", "__getitem__"}
   /\ BadKey(out'.args[1])) =>
    /\ out'.raised = "KeyError" /\ out'.value = <<>>
    /\ data' = data

(***************************************************************************)
(* C23.  A key is validated before anything else and never coerced: a      *)
(* tuple whose length is not 2, whose source is not in survey.srcList or   *)
(* whose receiver is not in the source's rxList raises KeyError, and so    *)
(* does a key that is no tuple and no source of the survey; no data are    *)
(* read or written then.                                                   *)
(***************************************************************************)
BadKeyRaisesKeyError == [][BadKeyRefusedStep]_vars

\* A tuple of three entries has been refused as the key of an assignment on
\* an object that holds data.
LongTupleRefused ==
  /\ HasSurvey /\ out.op = "__setitem__" /\ out.raised = "KeyError"
  /\ out.args[1].type = "tuple" /\ Len(out.args[1].items) = 3
  /\ out.args[2].type = "ndarray" /\ ~IsNone(data.dobs)

\* Data: an assignment to a pair that holds an entry that is not nan fails
\* and leaves the observed data as they are.
WrittenOnceStep ==
  (/\ HasSurvey /\ data.cls = "Data" /\ IsSet /\ IsPair(SetKey)
   /\ \E k \in 1..Len(EntriesOfPair(data, PairIndex(SetKey))) :
        ~isnan(EntriesOfPair(data, PairIndex(SetKey))[k])) =>
    /\ out'.raised \in {"Exception", "AssertionError"}
    /\ out'.raised = "Exception" <=>
         (SetValue.type = "ndarray"
          /\ size(SetValue) = rx_nD(SetKey.items[2]))
    /\ data'.dobs = data.dobs

\* Data: an assignment of an array of rx.nD entries to a pair whose entries
\* are all unset succeeds, whatever the other pairs hold.
UnsetAcceptedStep ==
  (/\ HasSurvey /\ data.cls = "Data" /\ IsSet /\ IsPair(SetKey)
   /\ SetValue.type = "ndarray" /\ size(SetValue) = rx_nD(SetKey.items[2])
   /\ \A k \in 1..Len(EntriesOfPair(data, PairIndex(SetKey))) :
        isnan(EntriesOfPair(data, PairIndex(SetKey))[k])) =>
    /\ out'.raised = None
    /\ EntriesOfPair(data', PairIndex(SetKey)) = mkvc(SetValue)

(***************************************************************************)
(* C25.  The observed data of a Data object are written once per           *)
(* (src, rx) pair: once the pair holds an entry that is not nan, every     *)
(* later data[src, rx] = w raises an error and leaves dobs unchanged,      *)
(* while assignments to other pairs whose entries are still unset go on    *)
(* succeeding.                                                             *)
(***************************************************************************)
ObservedDataWrittenOnce == [][WrittenOnceStep /\ UnsetAcceptedStep]_vars

\* An assignment to a pair that holds data has been refused, while another
\* pair is still unset.
OverwriteRefused ==
  /\ HasSurvey /\ data.cls = "Data" /\ out.op = "__setitem__"
  /\ out.raised = "Exception"
  /\ \E p \in 1..Len(SurveyPairs) :
       \A k \in 1..Len(EntriesOfPair(data, p)) :
         isnan(EntriesOfPair(data, p)[k])

\* A successful data[src, rx] = v: data[src, rx] then returns v, data[src]
\* returns the entries of the receivers of src one after the other in
\* rxList order, and the entries of every other pair are as before.
RoundTripStep ==
  (HasSurvey /\ IsSet /\ out'.raised = None) =>
    LET src == SetKey.items[1]
        rxs == rxList(src)
    IN /\ __getitem__(data', SetKey).raised = None
       /\ __getitem__(data', SetKey).value = mkvc(SetValue)
       /\ __getitem__(data', src).raised = None
       /\ __getitem__(data', src).value =
            Joined(AsSeq([i \in 1..Len(rxs) |->
              __getitem__(data', PyTuple(<<src, rxs[i]>>)).value]))
       /\ \A p \in 1..Len(SurveyPairs) :
            p # PairIndex(SetKey) =>
              EntriesOfPair(data', p) = EntriesOfPair(data, p)

\* What data[key] has returned is what the object holds for key.
GetReturnsStored ==
  (HasSurvey /\ out.op = "__getitem__" /\ out.raised = None) =>
    LET key == out.args[1]
        rxs == rxList(key)
    IN IF key.type = "tuple"
       THEN out.value = EntriesOfPair(data, PairIndex(key))
       ELSE out.value =
              Joined(AsSeq([i \in 1..Len(rxs) |->
                EntriesOfPair(data, PairIndex(PyTuple(<<key, rxs[i]>>)))]))

(***************************************************************************)
(* C26.  After a successful data[src, rx] = v, data[src, rx] returns v,    *)
(* the entries of dobs of every other pair are unchanged, and data[src]    *)
(* returns the entries of the receivers of src joined in rxList order.     *)
(***************************************************************************)
SetGetRoundTrip == []GetReturnsStored /\ [][RoundTripStep]_vars

\* data[srcA] has returned the entries of its two receivers, which differ.
SourceReadAfterSet ==
  /\ HasSurvey /\ out.op = "__getitem__" /\ out.raised = None
  /\ out.args[1] = SrcObject("srcA")
  /\ ~isnan(out.value[1]) /\ isnan(out.value[2])

\* The step is a read or an assignment of a deprecated alias.
AliasReadOk ==
  out.op \in {"std", "eps"} =>
    /\ out.raised = None
    /\ out.value = GetUncertainty(data, CurrentName(out.op))
AliasWriteStep ==
  out'.op \in {"std=", "eps="} =>
    LET name == IF out'.op = "std=" THEN "standard_deviation"
                ELSE "noise_floor"
        r == SetUncertainty(data, name, out'.args[1])
    IN out'.raised = r.raised /\ data' = r.self

(***************************************************************************)
(* C28.  The deprecated aliases are equivalent to the current names:       *)
(* data.std returns data.standard_deviation, data.std = x has the effect   *)
(* of data.standard_deviation = x, and likewise data.eps for               *)
(* data.noise_floor; each access completes without error after the         *)
(* deprecation warning.                                                    *)
(***************************************************************************)
AliasesEquivalent == []AliasReadOk /\ [][AliasWriteStep]_vars

\* What the code does: every read and every assignment of an alias raises
\* NameError at warnings.warn, and the data object is as before.
AliasesRaiseNameError ==
  [][out'.op \in {"std", "eps", "std=", "eps="} =>
       out'.raised = "NameError" /\ data' = data]_vars

\* The layer (level) and the radial position of row r among rows that run
\* over the radial index fastest, both from 1.
RadialOf(r) == ((r - 1) % Len(WidthsR)) + 1
LevelOf(r) == ((r - 1) \div Len(WidthsR)) + 1

\* The entry the curl is to have in row r (a face) and column c (an edge):
\* q = edge[c]/area[r] with the sign of the stencil, 0 outside the stencil.
CurlEntry(r, c) ==
  LET q == CDiv(edge(cyl)[c], area(cyl)[r])
  IN IF r <= nFr(cyl)
     THEN LET i == RadialOf(r)
              j == LevelOf(r)
          IN IF c = NodeIndex(i, j) THEN q
             ELSE IF c = NodeIndex(i, j + 1) THEN CNeg(q)
             ELSE Zero
     ELSE LET i == RadialOf(r - nFr(cyl))
              k == LevelOf(r - nFr(cyl))
          IN IF c = NodeIndex(i, k) THEN q
             ELSE IF i >= 2 /\ c = NodeIndex(i - 1, k) THEN CNeg(q)
             ELSE Zero

(***************************************************************************)
(* C27.  edgeCurl is an nF x nE matrix, the nFr r-face rows first and the  *)
(* nFz z-face rows after them.  The r-face row of layer j at radial node i *)
(* has +edge[column]/area[row] at node (i, j) and -edge[column]/area[row]  *)
(* at node (i, j+1); the z-face row at radial cell i and level k has       *)
(* +edge/area at node (i, k) and, but for the innermost cell, -edge/area   *)
(* at node (i-1, k); every other entry is 0.                               *)
(***************************************************************************)
EdgeCurlStencil ==
  out.op = "edgeCurl" =>
    /\ Len(out.value) = nF(cyl)
    /\ \A r \in 1..nF(cyl) :
         /\ Len(out.value[r]) = Cyl1D_nE(cyl)
         /\ \A c \in 1..Cyl1D_nE(cyl) : out.value[r][c] = CurlEntry(r, c)

\* The curl of a mesh of positive widths with two radial cells or more has
\* been read: its second z-face row has a negative and a positive entry.
EdgeCurlRead ==
  /\ out.op = "edgeCurl" /\ PositiveWidths /\ Len(WidthsR) >= 2
  /\ LET r == nFr(cyl) + 2
     IN /\ Less(out.value[r][1], Zero) /\ Less(Zero, out.value[r][2])
        /\ IsFinite(out.value[r][1]) /\ IsFinite(out.value[r][2])

(***************************************************************************)
(* C29.  Every orientation a receiver accepts at construction selects a    *)
(* formula branch of its eval and evalDeriv: no call on a 3D impedance,    *)
(* tipper or horizontal-magnetic receiver, whatever its orientation out of *)
(* 'xx', 'xy', 'yx', 'yy', 'zx', 'zy', finds the numerator undefined.      *)
(***************************************************************************)
EveryOrientationHasBranch ==
  (pc[1] = "done" /\ rx.variant # "impedance1D") => ret[1].raised = None

\* What the code does: the call returns on the orientations its branches
\* name and raises UnboundLocalError on the other ones.
OrientationBranches ==
  pc[1] = "done" =>
    ret[1].raised = IF Supported(rx) THEN None ELSE "UnboundLocalError"

(***************************************************************************)
(* C30.  For the horizontal-magnetic receiver whose numerator and          *)
(* denominator location sets coincide, with a non-zero determinant at      *)
(* every location, eval(..., return_complex=True) is exactly zero, for the *)
(* orientation of the receiver and for each of 'xx', 'xy', 'yx', 'yy'.     *)
(***************************************************************************)
HmagVanishesOnCoincidingLocations ==
  (/\ Returned(1, "eval") /\ call[1].return_complex
   /\ rx.variant = "horizontalmagvar3D"
   /\ _loc_numerator(rx) = _loc_denominator(rx)
   /\ \A k \in 1..Len(Denominator(rx)) :
        IsFinite(Denominator(rx)[k]) /\ Denominator(rx)[k] # Zero) =>
    /\ ret[1].value = AsSeq([k \in 1..nLocs(rx.locs) |-> Zero])
    /\ \A o \in {"xx", "xy", "yx", "yy"} :
         eval(WithOrientation(rx, o), TRUE) = Ok(ret[1].value)

\* Such an eval has returned on the orientation 'yy', the fields at the
\* locations not being zero.
HmagOnCoincidingLocationsReturned ==
  /\ Returned(1, "eval") /\ call[1].return_complex
  /\ rx.variant = "horizontalmagvar3D" /\ rx.orientation = "yy"
  /\ _loc_numerator(rx) = _loc_denominator(rx)
  /\ \A k \in 1..Len(Denominator(rx)) :
       IsFinite(Denominator(rx)[k]) /\ Denominator(rx)[k] # Zero
  /\ SomeNonZero(Mij_eval(rx))

====
